---- MODULE Spec2Model ----
(***************************************************************************)
(* A model of the LMDB-backed storage layer: the key/value cursor          *)
(* operations of mongo/util/mdb.h, the index access method and index       *)
(* cursor of mongo/db/index/btree_based_access_method.cpp, and the record  *)
(* store of mongo/db/structure/record_store_mdb.cpp.                       *)
(*                                                                         *)
(* A database is the set of its <<key, value>> pairs; a cursor walks them  *)
(* in (key, value) order.  Index keys and record locators are small        *)
(* integers, ordered as the database's key and duplicate comparators       *)
(* order them.                                                             *)
(***************************************************************************)
EXTENDS Integers, Sequences, FiniteSets

\* ------------------------------------------------------------- bounds
MaxKey == 2
MaxLoc == 2
MaxId == 4
MaxRecSize == 2
MaxCapSize == 3
MaxCapDocs == 4
MaxKvKey == 1
MaxKvVal == 1
MaxDepth == 2
MaxThreads == 2
MaxStrLen == 2
MaxViewLen == 8

Keys == 1..MaxKey
Locs == 1..MaxLoc
KeySets == SUBSET Keys
Pairs == Keys \X Locs

\* DiskLoc(): the null locator
NullLoc == 0
\* a cursor that was never positioned
NoPos == <<0, 0>>

VARIABLES
    idx,          \* the index database: a set of <<key, loc>> pairs
    unique,       \* descriptor: unique index (or the _id index)
    dupSort,      \* the index database stores several locators per key
    ready,        \* IndexCatalogEntry::isReady()
    multikey,     \* IndexCatalogEntry multikey bit
    docs,         \* the collection: docs[loc] = key set of the document at loc, {} if none
    ticket,       \* the UpdateTicket handed from validateUpdate to update
    fate,         \* "running", or how the operation context ended
    dupsUsed,     \* some call so far was made with dupsAllowed = true
    curDir,       \* MDBIndexCursor::_direction
    curEof,       \* MDBIndexCursor::_eof
    curPos,       \* where MDBIndexCursor::_cursor stands
    curAttached,  \* _cursor holds a live handle
    savedKey,     \* MDBIndexCursor::_savedKey
    savedLoc,     \* BtreeIndexCursor::_savedLoc
    curOp,        \* the last index-cursor call
    dirty,        \* the database changed since the last savePosition
    recs,         \* the collection database: a set of <<id, size>> pairs
    nextId,       \* RecordStoreMDB::_nextId
    dataSize,     \* NamespaceDetails::dataSize()
    numRecords,   \* NamespaceDetails::numRecords()
    capped,       \* NamespaceDetails::isCapped()
    maxSize,      \* NamespaceDetails::maxCappedSize()
    maxDocs,      \* NamespaceDetails::maxCappedDocs()
    rsLast,       \* the last record-store call: [op, id, ok]
    rsHist,       \* history: [issued: the ids this instance returned, size: of the
                  \* last insert, sizes: of all its inserts, pure: the database
                  \* has only seen inserts]
    dropDups,     \* descriptor: dropDups
    bulkPhase,    \* the bulk build: "none", "filling", "committing", "done"
    sorter,       \* _phase1.sorter: the <<key, loc>> pairs handed to the builder
    bulkMulti,    \* _phase1.multi
    bulkPos,      \* how many sorted items the commit loop has taken
    dupsToDrop,   \* the caller's set of locators to drop
    mayInterrupt, \* commitBulk's mayInterrupt argument
    killPending,  \* the interruption flag of the current operation
    killAt,       \* how many items the loop had taken when the flag was raised
    rarely,       \* the static counter of RARELY
    bulkStatus,   \* what initiateBulk / commitBulk returned or threw
    kvEnv,        \* the named database as committed in the environment
    kvExists,     \* the named database exists in the environment
    kvOpen,       \* the DB handle is open
    wtxns,        \* the stack of write transactions: each one's view of the database
    rtxn,         \* the read transaction: [open, view]
    kvLast,       \* the last facade call: [op, st, missing]
    wstat,        \* per thread: "idle", "blocked" in Txn::Write, or "writing"
    scope,        \* the Txn objects in scope, outermost first: [held, ends]
    gone,         \* how often the transaction of the Txn destroyed last was ended
    codec,        \* a conversion through mdb::Data: [type, val, view, out, phase]
    walk,         \* a cursor traversal: [db, dups, keys, mode, pos, seen, done]
    peer          \* a second index cursor and the last pointsAt: [eof, pos, ab, ba]

idxVars == <<idx, unique, dupSort, ready, multikey, docs, ticket, fate, dupsUsed>>
curVars == <<curDir, curEof, curPos, curAttached, savedKey, savedLoc, curOp, dirty>>
rsVars == <<recs, nextId, dataSize, numRecords, capped, maxSize, maxDocs, rsLast,
            rsHist>>
bulkVars == <<dropDups, bulkPhase, sorter, bulkMulti, bulkPos, dupsToDrop,
              mayInterrupt, killPending, killAt, rarely, bulkStatus>>
kvVars == <<kvEnv, kvExists, kvOpen, wtxns, rtxn, kvLast>>
thrVars == <<wstat, scope, gone>>
codecVars == <<codec>>
walkVars == <<walk>>
peerVars == <<peer>>
vars == <<idxVars, curVars, rsVars, bulkVars, kvVars, thrVars, codecVars, walkVars,
          peerVars>>

\* ------------------------------------------------ key/value store (mdb.h)

\* (key, value) order of a database with sorted duplicates
PairLess(p, q) == p[1] < q[1] \/ (p[1] = q[1] /\ p[2] < q[2])

MinPair(S) == CHOOSE p \in S : \A q \in S : p = q \/ PairLess(p, q)
MaxPair(S) == CHOOSE p \in S : \A q \in S : p = q \/ PairLess(q, p)

\* a MaybeKV: boost::none, or the pair the cursor now stands on
None == [found |-> FALSE, pos |-> NoPos]
Some(p) == [found |-> TRUE, pos |-> p]
FirstOf(S) == IF S = {} THEN None ELSE Some(MinPair(S))
LastOf(S) == IF S = {} THEN None ELSE Some(MaxPair(S))

\* Cursor::first / Cursor::last
KvFirst(db) == FirstOf(db)
KvLast(db) == LastOf(db)

\* Cursor::next (MDB_NEXT); on a cursor never positioned it is MDB_FIRST
KvNext(db, pos) ==
    IF pos = NoPos THEN FirstOf(db)
    ELSE FirstOf({p \in db : PairLess(pos, p)})

\* Cursor::prev (MDB_PREV); on a cursor never positioned it is MDB_LAST
KvPrev(db, pos) ==
    IF pos = NoPos THEN LastOf(db)
    ELSE LastOf({p \in db : PairLess(p, pos)})

\* Cursor::nextNoDup (MDB_NEXT_NODUP): first value of the next key
KvNextNoDup(db, pos) ==
    IF pos = NoPos THEN FirstOf(db)
    ELSE FirstOf({p \in db : p[1] > pos[1]})

\* Cursor::prevNoDup (MDB_PREV_NODUP): last value of the previous key
KvPrevNoDup(db, pos) ==
    IF pos = NoPos THEN LastOf(db)
    ELSE LastOf({p \in db : p[1] < pos[1]})

\* Cursor::firstDup / Cursor::lastDup: first / last value of the current key
KvFirstDup(db, pos) == FirstOf({p \in db : p[1] = pos[1]})
KvLastDup(db, pos) == LastOf({p \in db : p[1] = pos[1]})

\* Cursor::countDups
KvCountDups(db, pos) == Cardinality({p \in db : p[1] = pos[1]})

\* Cursor::seek(key) (MDB_SET)
KvSeek(db, k) == \E p \in db : p[1] = k

\* Cursor::seekKey(key) (MDB_SET_KEY): the key's first value
KvSeekKey(db, k) == FirstOf({p \in db : p[1] = k})

\* Cursor::seekKey(key, val) (MDB_GET_BOTH): the exact pair
KvSeekBoth(db, k, v) == IF <<k, v>> \in db THEN Some(<<k, v>>) ELSE None

\* Cursor::seekRange(key) (MDB_SET_RANGE): first pair of the smallest key >= k
KvSeekRange(db, k) == FirstOf({p \in db : p[1] >= k})

\* variant: the key's smallest value strictly after v
KvSeekBothAfter(db, k, v) == FirstOf({p \in db : p[1] = k /\ p[2] > v})

\* Cursor::seekRange(key, val) (MDB_GET_BOTH_RANGE): the key's smallest value >= v
KvSeekBothRange(db, k, v) == FirstOf({p \in db : p[1] = k /\ p[2] >= v})

\* Cursor::put with MDB_NODUPDATA and, when noOverwrite, MDB_NOOVERWRITE.
\* A database without sorted duplicates keeps one value per key.
KvPut(db, dups, k, v, noOverwrite) ==
    IF noOverwrite /\ (\E p \in db : p[1] = k)
    THEN [rc |-> "KEYEXIST", db |-> db]
    ELSE IF <<k, v>> \in db
    THEN [rc |-> "KEYEXIST", db |-> db]
    ELSE IF dups
    THEN [rc |-> "OK", db |-> db \cup {<<k, v>>}]
    ELSE [rc |-> "OK", db |-> {p \in db : p[1] # k} \cup {<<k, v>>}]

\* Cursor::deleteCurrent
KvDel(db, pos) == db \ {pos}

\* ------------------------------------- index access method (insert / remove)

\* iteration order of a BSONObjSet: ascending under the index comparator
RECURSIVE SortedSeq(_)
SortedSeq(S) ==
    IF S = {} THEN <<>>
    ELSE LET m == CHOOSE x \in S : \A y \in S : x <= y
         IN <<m>> \o SortedSeq(S \ {m})

\* variant: MDB_NOOVERWRITE is never passed
NoOverwriteNever(dupsAllowed) == FALSE

\* insert / update: MDB_NODUPDATA | (dupsAllowed ? 0 : MDB_NOOVERWRITE)
NoOverwriteFlag(dupsAllowed) == ~dupsAllowed

\* variant: a duplicate key is reported without the clean-up loop
UnwindNothing(db, ks, j, loc, key) == [db |-> db, ok |-> TRUE]

\* insert: the clean-up loop after a duplicate key; ok is the invariant
\* keyToDel.binaryEqual(key) at the first pair that is not found
RECURSIVE Unwind(_, _, _, _, _)
Unwind(db, ks, j, loc, key) ==
    IF j > Len(ks) THEN [db |-> db, ok |-> TRUE]
    ELSE IF KvSeekBoth(db, ks[j], loc).found
    THEN Unwind(KvDel(db, <<ks[j], loc>>), ks, j + 1, loc, key)
    ELSE [db |-> db, ok |-> ks[j] = key]

\* insert: the loop over the document's keys, from the i-th on
RECURSIVE InsertKeys(_, _, _, _, _, _, _, _)
InsertKeys(db, dups, isReady, ks, i, loc, dupsAllowed, n) ==
    IF i > Len(ks) THEN [db |-> db, status |-> "OK", n |-> n]
    ELSE LET r == KvPut(db, dups, ks[i], loc, NoOverwriteFlag(dupsAllowed))
         IN IF r.rc = "OK"
            THEN InsertKeys(r.db, dups, isReady, ks, i + 1, loc, dupsAllowed, n + 1)
            ELSE IF ~isReady
            THEN InsertKeys(db, dups, isReady, ks, i + 1, loc, dupsAllowed, n)
            ELSE IF dupsAllowed
            THEN [db |-> db, status |-> "InvariantFailure", n |-> n]
            ELSE LET u == Unwind(db, ks, 1, loc, ks[i])
                 IN [db |-> u.db,
                     status |-> IF u.ok THEN "DuplicateKey" ELSE "InvariantFailure",
                     n |-> 0]

\* BtreeBasedAccessMethod::insert on the document with key set K at loc
InsertOp(db, dups, isReady, K, loc, dupsAllowed) ==
    InsertKeys(db, dups, isReady, SortedSeq(K), 1, loc, dupsAllowed, 0)

\* variant: remove stops at the first pair that is missing
RECURSIVE RemoveUntilMiss(_, _, _, _, _, _, _)
RemoveUntilMiss(db, ks, i, loc, logIfError, n, warn) ==
    IF i > Len(ks) THEN [db |-> db, status |-> "OK", n |-> n, warn |-> warn]
    ELSE IF <<ks[i], loc>> \in db
    THEN RemoveUntilMiss(db \ {<<ks[i], loc>>}, ks, i + 1, loc, logIfError, n + 1, warn)
    ELSE [db |-> db, status |-> "OK", n |-> n,
          warn |-> IF logIfError THEN warn + 1 ELSE warn]

\* remove: the loop over the document's keys; warn counts the logged misses
RECURSIVE RemoveKeys(_, _, _, _, _, _, _)
RemoveKeys(db, ks, i, loc, logIfError, n, warn) ==
    IF i > Len(ks) THEN [db |-> db, status |-> "OK", n |-> n, warn |-> warn]
    ELSE IF KvSeekBoth(db, ks[i], loc).found
    THEN RemoveKeys(KvDel(db, <<ks[i], loc>>), ks, i + 1, loc, logIfError, n + 1, warn)
    ELSE RemoveKeys(db, ks, i + 1, loc, logIfError, n,
                    IF logIfError THEN warn + 1 ELSE warn)

\* BtreeBasedAccessMethod::remove
RemoveOp(db, K, loc, logIfError) ==
    IF K = {} THEN [db |-> db, status |-> "OK", n |-> 0, warn |-> 0]
    ELSE RemoveKeys(db, SortedSeq(K), 1, loc, logIfError, 0, 0)

\* variant: findSingle looks at the first pair of the database only
FindSingleFirst(db, k) ==
    LET kv == KvFirst(db)
    IN IF kv.found /\ kv.pos[1] = k THEN kv.pos[2] ELSE NullLoc

\* BtreeBasedAccessMethod::findSingle
FindSingle(db, k) ==
    LET kv == KvSeekKey(db, k)
    IN IF kv.found THEN kv.pos[2] ELSE NullLoc

\* ------------------------------- index access method (validateUpdate / update)

\* setDifference: the keys of l that are not in r, by a merge walk of the two
\* sorted sets; j only ever advances
RECURSIVE SkipLess(_, _, _)
SkipLess(r, j, x) ==
    IF j <= Len(r) /\ r[j] < x THEN SkipLess(r, j + 1, x) ELSE j

RECURSIVE DiffWalk(_, _, _, _, _)
DiffWalk(l, r, i, j, diff) ==
    IF i > Len(l) THEN diff
    ELSE LET j2 == SkipLess(r, j, l[i])
         IN IF j2 > Len(r) \/ l[i] # r[j2]
            THEN DiffWalk(l, r, i + 1, j2, Append(diff, l[i]))
            ELSE DiffWalk(l, r, i + 1, j2, diff)

SetDifference(l, r) == DiffWalk(SortedSeq(l), SortedSeq(r), 1, 1, <<>>)

\* no UpdateTicket is outstanding
NoTicket ==
    [valid |-> FALSE, loc |-> NullLoc, oldKeys |-> {}, newKeys |-> {},
     added |-> <<>>, removed |-> <<>>, dupsAllowed |-> FALSE]

\* variant: no added key is looked up
AnyPresentNever(db, ks, i) == FALSE

\* validateUpdate: does some added key already have an entry?
RECURSIVE AnyPresent(_, _, _)
AnyPresent(db, ks, i) ==
    IF i > Len(ks) THEN FALSE
    ELSE IF KvSeek(db, ks[i]) THEN TRUE
    ELSE AnyPresent(db, ks, i + 1)

\* BtreeBasedAccessMethod::validateUpdate: the ticket and the returned status
ValidateUpdateOp(db, isUnique, from, to, loc, dupsAllowed) ==
    LET removed == SetDifference(from, to)
        added == SetDifference(to, from)
        checkForDups == added # <<>> /\ isUnique /\ ~dupsAllowed
        dup == checkForDups /\ AnyPresent(db, added, 1)
    IN [ticket |-> [valid |-> ~dup, loc |-> loc, oldKeys |-> from, newKeys |-> to,
                    added |-> added, removed |-> removed,
                    dupsAllowed |-> dupsAllowed],
        status |-> IF dup THEN "DuplicateKey" ELSE "OK"]

\* update: cursor.put of every added key; a failing put throws mdb::Error
RECURSIVE PutAdded(_, _, _, _, _, _)
PutAdded(db, dups, ks, i, loc, dupsAllowed) ==
    IF i > Len(ks) THEN [db |-> db, ok |-> TRUE]
    ELSE LET r == KvPut(db, dups, ks[i], loc, NoOverwriteFlag(dupsAllowed))
         IN IF r.rc = "OK"
            THEN PutAdded(r.db, dups, ks, i + 1, loc, dupsAllowed)
            ELSE [db |-> db, ok |-> FALSE]

\* update: verify(seekKey) and deleteCurrent of every removed key
RECURSIVE DelRemoved(_, _, _, _)
DelRemoved(db, ks, i, loc) ==
    IF i > Len(ks) THEN [db |-> db, ok |-> TRUE]
    ELSE IF KvSeekBoth(db, ks[i], loc).found
    THEN DelRemoved(KvDel(db, <<ks[i], loc>>), ks, i + 1, loc)
    ELSE [db |-> db, ok |-> FALSE]

\* update: oldKeys.size() + added.size() - removed.size() > 1
UpdateMultikey(t) ==
    Cardinality(t.oldKeys) + Len(t.added) - Len(t.removed) > 1

\* BtreeBasedAccessMethod::update
UpdateOp(db, dups, t) ==
    IF ~t.valid
    THEN [db |-> db, status |-> "InternalError", n |-> 0, mk |-> FALSE]
    ELSE LET a == PutAdded(db, dups, t.added, 1, t.loc, t.dupsAllowed)
             d == DelRemoved(a.db, t.removed, 1, t.loc)
         IN IF ~a.ok
            THEN [db |-> a.db, status |-> "Threw", n |-> 0, mk |-> UpdateMultikey(t)]
            ELSE IF ~d.ok
            THEN [db |-> d.db, status |-> "Threw", n |-> 0, mk |-> UpdateMultikey(t)]
            ELSE [db |-> d.db, status |-> "OK", n |-> Len(t.added),
                  mk |-> UpdateMultikey(t)]

\* ------------------------------------------------ index access method: calls

\* the operation context is still running: no invariant failed, nothing threw
Alive == fate = "running"

\* an invariant failure or an exception ends the operation context
Fate(status) ==
    IF status \in {"InvariantFailure", "Threw"} THEN status ELSE "running"

\* how the catalog opens the database of an index: a unique index keeps one
\* locator per key, or sorted duplicates like any other index
DupSortChoices(isUnique) == IF isUnique THEN {FALSE, TRUE} ELSE {TRUE}

InitIdx ==
    /\ idx = {}
    /\ unique \in BOOLEAN
    /\ dupSort \in DupSortChoices(unique)
    /\ ready \in BOOLEAN
    /\ multikey = FALSE
    /\ docs = [l \in Locs |-> {}]
    /\ ticket = NoTicket
    /\ fate = "running"
    /\ dupsUsed = FALSE

\* variant: the bit is set from the third stored key on
InsertMultikeyLate(n) == n > 2

\* insert: if (*numInserted > 1) setMultikey()
InsertMultikey(n) == n > 1

\* insert(obj, loc, options, &numInserted)
Insert(K, loc, dupsAllowed) ==
    /\ Alive
    /\ ticket = NoTicket
    /\ K # {}
    /\ LET r == InsertOp(idx, dupSort, ready, K, loc, dupsAllowed)
       IN /\ idx' = r.db
          /\ fate' = Fate(r.status)
          /\ multikey' = (multikey \/ (r.status = "OK" /\ InsertMultikey(r.n)))
    /\ dupsUsed' = (dupsUsed \/ dupsAllowed)
    /\ UNCHANGED <<unique, dupSort, ready, ticket>>

\* remove(obj, loc, options, &numDeleted)
Remove(K, loc, logIfError) ==
    /\ Alive
    /\ ticket = NoTicket
    /\ LET r == RemoveOp(idx, K, loc, logIfError)
       IN idx' = r.db
    /\ UNCHANGED <<unique, dupSort, ready, multikey, dupsUsed, ticket, fate>>

\* the keys the index holds for loc: the key set of the document stored there
KeysAt(db, loc) == {k \in Keys : <<k, loc>> \in db}

\* validateUpdate(from, to, loc, options, &ticket)
ValidateUpdate(from, to, loc, dupsAllowed) ==
    /\ Alive
    /\ ticket = NoTicket
    /\ from # {}
    /\ to # {}
    /\ LET r == ValidateUpdateOp(idx, unique, from, to, loc, dupsAllowed)
       IN ticket' = r.ticket
    /\ dupsUsed' = (dupsUsed \/ dupsAllowed)
    /\ UNCHANGED <<idx, unique, dupSort, ready, multikey, fate>>

\* update(ticket, &numUpdated), called with the ticket validateUpdate just made
Update ==
    /\ Alive
    /\ ticket # NoTicket
    /\ LET r == UpdateOp(idx, dupSort, ticket)
       IN /\ idx' = r.db
          /\ fate' = Fate(r.status)
          /\ multikey' = (multikey \/ r.mk)
    /\ ticket' = NoTicket
    /\ UNCHANGED <<unique, dupSort, ready, dupsUsed>>

\* ------------------------------------------------------------ index cursor

\* after a successful seekRange: firstDup (forward) or lastDup (reverse) when
\* the landed key has several locators
DupAdjust(db, dir, pos) ==
    IF KvCountDups(db, pos) > 1
    THEN (IF dir = 1 THEN KvFirstDup(db, pos).pos ELSE KvLastDup(db, pos).pos)
    ELSE pos

\* seekRange found nothing: EOF forward, the last pair (if any) in reverse
SeekMiss(db, dir) ==
    IF dir = 1 THEN [eof |-> TRUE, pos |-> NoPos]
    ELSE LET kv == KvLast(db) IN [eof |-> ~kv.found, pos |-> kv.pos]

\* MDBIndexCursor::seek(const BSONObj& position)
SeekOp(db, dir, key) ==
    LET kv == KvSeekRange(db, key)
    IN IF kv.found THEN [eof |-> FALSE, pos |-> DupAdjust(db, dir, kv.pos)]
       ELSE SeekMiss(db, dir)

\* variant: after the key, the cursor moves by next() / prev()
SeekAfterOpNext(db, dir, key, afterKey) ==
    LET kv == KvSeekRange(db, key)
    IN IF kv.found
       THEN IF afterKey /\ kv.pos[1] = key
            THEN LET m == IF dir = 1 THEN KvNext(db, kv.pos)
                          ELSE KvPrev(db, kv.pos)
                 IN [eof |-> ~m.found, pos |-> IF m.found THEN m.pos ELSE kv.pos]
            ELSE [eof |-> FALSE, pos |-> DupAdjust(db, dir, kv.pos)]
       ELSE SeekMiss(db, dir)

\* MDBIndexCursor::seek(const BSONObj& position, bool afterKey)
SeekAfterOp(db, dir, key, afterKey) ==
    LET kv == KvSeekRange(db, key)
    IN IF kv.found
       THEN IF afterKey /\ kv.pos[1] = key
            THEN LET m == IF dir = 1 THEN KvNextNoDup(db, kv.pos)
                          ELSE KvPrevNoDup(db, kv.pos)
                 IN [eof |-> ~m.found, pos |-> IF m.found THEN m.pos ELSE kv.pos]
            ELSE [eof |-> FALSE, pos |-> DupAdjust(db, dir, kv.pos)]
       ELSE SeekMiss(db, dir)

\* variant: next steps over the remaining locators of the current key
NextOpNoDup(db, dir, pos) ==
    LET m == IF dir = 1 THEN KvNextNoDup(db, pos) ELSE KvPrevNoDup(db, pos)
    IN [eof |-> ~m.found, pos |-> IF m.found THEN m.pos ELSE pos]

\* MDBIndexCursor::next
NextOp(db, dir, pos) ==
    LET m == IF dir = 1 THEN KvNext(db, pos) ELSE KvPrev(db, pos)
    IN [eof |-> ~m.found, pos |-> IF m.found THEN m.pos ELSE pos]

\* restorePosition, forward, seekRange(_savedKey, _savedLoc) found nothing:
\* the test _savedKey.woEqual(_savedKey) is always true
RestoreFwdMiss(db, sk) ==
    LET kv == KvSeekRange(db, sk)
    IN IF kv.found
       THEN IF sk = sk
            THEN LET m == KvNextNoDup(db, kv.pos)
                 IN [eof |-> ~m.found, pos |-> IF m.found THEN m.pos ELSE kv.pos]
            ELSE [eof |-> FALSE, pos |-> kv.pos]
       ELSE [eof |-> TRUE, pos |-> NoPos]

\* restorePosition, reverse, seekRange(_savedKey, _savedLoc) found nothing
RestoreRevMiss(db, sk) ==
    LET kv == KvSeekRange(db, sk)
    IN IF kv.found
       THEN LET at == IF KvCountDups(db, kv.pos) > 1
                      THEN KvLastDup(db, kv.pos).pos ELSE kv.pos
            IN IF at[1] = sk
               THEN [eof |-> FALSE, pos |-> at]
               ELSE LET m == KvPrev(db, at)
                    IN [eof |-> ~m.found, pos |-> IF m.found THEN m.pos ELSE at]
       ELSE LET l == KvLast(db) IN [eof |-> ~l.found, pos |-> l.pos]

\* restorePosition, reverse, landed on a later locator of the saved key
RestoreRevPassed(db, pos) ==
    LET m == KvPrev(db, pos)
    IN [eof |-> ~m.found, pos |-> IF m.found THEN m.pos ELSE pos]

\* MDBIndexCursor::restorePosition
RestoreOp(db, dir, sk, sl) ==
    LET kv == KvSeekBothRange(db, sk, sl)
    IN IF kv.found
       THEN IF dir = 1 \/ kv.pos[2] = sl
            THEN [eof |-> FALSE, pos |-> kv.pos]
            ELSE RestoreRevPassed(db, kv.pos)
       ELSE IF dir = 1 THEN RestoreFwdMiss(db, sk)
       ELSE RestoreRevMiss(db, sk)

InitCur ==
    /\ curDir \in {1, -1}
    /\ curEof = FALSE
    /\ curPos = NoPos
    /\ curAttached = TRUE
    /\ savedKey = 0
    /\ savedLoc = NullLoc
    /\ curOp = "new"
    /\ dirty = FALSE

\* newCursor: a fresh MDBIndexCursor (the direction is set by the caller)
NewCursor(dir) ==
    /\ curDir' = dir
    /\ curEof' = FALSE
    /\ curPos' = NoPos
    /\ curAttached' = TRUE
    /\ curOp' = "new"
    /\ UNCHANGED <<savedKey, savedLoc, dirty, idx>>

CurSeek(key) ==
    /\ curAttached
    /\ LET r == SeekOp(idx, curDir, key)
       IN curEof' = r.eof /\ curPos' = r.pos
    /\ curOp' = "seek"
    /\ UNCHANGED <<curDir, curAttached, savedKey, savedLoc, dirty, idx>>

CurSeekAfter(key, afterKey) ==
    /\ curAttached
    /\ LET r == SeekAfterOp(idx, curDir, key, afterKey)
       IN curEof' = r.eof /\ curPos' = r.pos
    /\ curOp' = "seekAfter"
    /\ UNCHANGED <<curDir, curAttached, savedKey, savedLoc, dirty, idx>>

\* next(), called by a scan that has checked isEOF() and stands on a pair
CurNext ==
    /\ curAttached
    /\ ~curEof
    /\ curPos # NoPos
    /\ LET r == NextOp(idx, curDir, curPos)
       IN curEof' = r.eof /\ curPos' = r.pos
    /\ curOp' = "next"
    /\ UNCHANGED <<curDir, curAttached, savedKey, savedLoc, dirty, idx>>

\* next(), called on a cursor that reports EOF: the code takes no look at
\* _eof and moves the store cursor from where the last operation left it
CurNextAtEof ==
    /\ curAttached
    /\ curEof
    /\ LET r == NextOp(idx, curDir, curPos)
       IN curEof' = r.eof /\ curPos' = r.pos
    /\ curOp' = "nextAtEof"
    /\ UNCHANGED <<curDir, curAttached, savedKey, savedLoc, dirty, idx>>

\* variant: savePosition does not look at _eof
SavePositionAlways(eof) == "OK"

\* the status savePosition returns
SavePositionStatus(eof) == IF eof THEN "IllegalOperation" ELSE "OK"

\* savePosition: at EOF it returns IllegalOperation and touches nothing
CurSave ==
    /\ curAttached
    /\ curEof \/ curPos # NoPos
    /\ IF SavePositionStatus(curEof) = "OK"
       THEN /\ savedKey' = curPos[1]
            /\ savedLoc' = curPos[2]
            /\ curAttached' = FALSE
            /\ curOp' = "save"
            /\ dirty' = FALSE
       ELSE /\ curOp' = "saveEof"
            /\ UNCHANGED <<savedKey, savedLoc, curAttached, dirty>>
    /\ UNCHANGED <<curDir, curEof, curPos, idx>>

\* restorePosition after a successful savePosition
CurRestore ==
    /\ ~curAttached
    /\ LET r == RestoreOp(idx, curDir, savedKey, savedLoc)
       IN curEof' = r.eof /\ curPos' = r.pos
    /\ curAttached' = TRUE
    /\ curOp' = "restore"
    /\ UNCHANGED <<curDir, savedKey, savedLoc, dirty, idx>>

\* other cursors write while the index cursor is saved, or not yet used
Parked == ~curAttached \/ curOp = "new"

\* another cursor of the same write transaction puts a pair (MDB_NODUPDATA)
OtherPut(k, v) ==
    /\ Parked
    /\ LET r == KvPut(idx, dupSort, k, v, FALSE)
       IN /\ r.rc = "OK"
          /\ idx' = r.db
    /\ dirty' = TRUE
    /\ UNCHANGED <<curDir, curEof, curPos, curAttached, savedKey, savedLoc, curOp>>

\* another cursor of the same write transaction deletes a pair
OtherDelete(k, v) ==
    /\ Parked
    /\ KvSeekBoth(idx, k, v).found
    /\ idx' = KvDel(idx, <<k, v>>)
    /\ dirty' = TRUE
    /\ UNCHANGED <<curDir, curEof, curPos, curAttached, savedKey, savedLoc, curOp>>

\* ------------------------------------------------ two index cursors (pointsAt)

\* a second MDBIndexCursor, fresh: _eof false, its cursor on no pair; no
\* pointsAt called yet
NoPeer == [eof |-> FALSE, pos |-> NoPos, ab |-> "none", ba |-> "none"]

\* the first cursor as pointsAt sees it
Us == [eof |-> curEof, pos |-> curPos]

\* variant: pointsAt looks at other.isEOF() before it compares
PointsAtBothEof(us, them) ==
    IF us.eof \/ them.eof THEN us.eof /\ them.eof
    ELSE us.pos[2] = them.pos[2] /\ us.pos[1] = them.pos[1]

\* MDBIndexCursor::pointsAt: other.isEOF() when this is at EOF, and else the
\* locators and the keys of the two _cursor.current() compared
PointsAtOp(us, them) ==
    IF us.eof THEN them.eof
    ELSE us.pos[2] = them.pos[2] /\ us.pos[1] = them.pos[1]

\* every _cursor.current() that cursor us takes in us.pointsAt(them) is on a pair
CurrentDefined(us, them) == us.eof \/ (us.pos # NoPos /\ them.pos # NoPos)

\* seek(position) on the second cursor
PeerSeek(key) ==
    /\ LET r == SeekOp(idx, curDir, key)
       IN peer' = [peer EXCEPT !.eof = r.eof, !.pos = r.pos]
    /\ UNCHANGED <<idx, curVars>>

\* next() on the second cursor, called by a scan that has checked isEOF()
PeerNext ==
    /\ ~peer.eof
    /\ peer.pos # NoPos
    /\ LET r == NextOp(idx, curDir, peer.pos)
       IN peer' = [peer EXCEPT !.eof = r.eof, !.pos = r.pos]
    /\ UNCHANGED <<idx, curVars>>

\* a.pointsAt(b) and b.pointsAt(a), a the first cursor and b the second
PointsAt ==
    /\ curAttached
    /\ CurrentDefined(Us, peer) /\ CurrentDefined(peer, Us)
    /\ peer' = [peer EXCEPT !.ab = IF PointsAtOp(Us, peer) THEN "true" ELSE "false",
                            !.ba = IF PointsAtOp(peer, Us) THEN "true" ELSE "false"]
    /\ UNCHANGED <<idx, curVars>>

\* the cursors move on: the results of the last pointsAt are dropped
PeerForget ==
    /\ peer.ab # "none"
    /\ peer' = [peer EXCEPT !.ab = "none", !.ba = "none"]
    /\ UNCHANGED <<idx, curVars>>

\* ------------------------------------------------------------ record store

RecSizes == 1..MaxRecSize

\* variant: the loop runs as soon as a limit is reached
OverCapAtLimit(ds, nr, ms, md) == ds >= ms \/ nr >= md

\* variant: the eviction loop runs only while both limits are exceeded
OverCapBoth(ds, nr, ms, md) == ds > ms /\ nr > md

\* the loop condition of cappedPostInsert
OverCap(ds, nr, ms, md) == ds > ms \/ nr > md

\* variant: the loop deletes without taking the record off the stats
RECURSIVE EvictLoopNoStats(_, _, _, _, _, _)
EvictLoopNoStats(db, ds, nr, ms, md, pos) ==
    IF ~OverCap(ds, nr, ms, md)
    THEN [db |-> db, ds |-> ds, nr |-> nr, ok |-> TRUE]
    ELSE LET kv == KvNext(db, pos)
         IN IF ~kv.found
            THEN [db |-> db, ds |-> ds, nr |-> nr, ok |-> FALSE]
            ELSE EvictLoopNoStats(KvDel(db, kv.pos), ds, nr, ms, md, kv.pos)

\* variant: the loop takes cursor.prev(), the newest record first
RECURSIVE EvictLoopNewest(_, _, _, _, _, _)
EvictLoopNewest(db, ds, nr, ms, md, pos) ==
    IF ~OverCap(ds, nr, ms, md)
    THEN [db |-> db, ds |-> ds, nr |-> nr, ok |-> TRUE]
    ELSE LET kv == KvPrev(db, pos)
         IN IF ~kv.found
            THEN [db |-> db, ds |-> ds, nr |-> nr, ok |-> FALSE]
            ELSE EvictLoopNewest(KvDel(db, kv.pos), ds - kv.pos[2], nr - 1, ms, md, kv.pos)

\* cappedPostInsert: the eviction loop, its cursor standing at pos; ok is the
\* invariant that cursor.next() found a record
RECURSIVE EvictLoop(_, _, _, _, _, _)
EvictLoop(db, ds, nr, ms, md, pos) ==
    IF ~OverCap(ds, nr, ms, md)
    THEN [db |-> db, ds |-> ds, nr |-> nr, ok |-> TRUE]
    ELSE LET kv == KvNext(db, pos)
         IN IF ~kv.found
            THEN [db |-> db, ds |-> ds, nr |-> nr, ok |-> FALSE]
            ELSE EvictLoop(KvDel(db, kv.pos), ds - kv.pos[2], nr - 1, ms, md, kv.pos)

\* RecordStoreMDB::cappedPostInsert
CappedPostInsert(db, ds, nr, isCapped, ms, md) ==
    IF ~isCapped THEN [db |-> db, ds |-> ds, nr |-> nr, ok |-> TRUE]
    ELSE IF ds <= ms /\ nr <= md THEN [db |-> db, ds |-> ds, nr |-> nr, ok |-> TRUE]
    ELSE EvictLoop(db, ds, nr, ms, md, NoPos)

\* DB::put with MDB_APPEND: the key must follow every key of the database
AppendOk(db, id) == \A p \in db : p[1] < id

\* RecordStoreMDB::insertRecord, both overloads: put, incrementStats,
\* cappedPostInsert
InsertRecordOp(db, id, size, ds, nr, isCapped, ms, md) ==
    IF ~AppendOk(db, id)
    THEN [db |-> db, ds |-> ds, nr |-> nr, ok |-> FALSE]
    ELSE CappedPostInsert(db \cup {<<id, size>>}, ds + size, nr + 1, isCapped, ms, md)

\* no locator returned yet, nothing deleted or truncated yet
NoHist == [issued |-> {}, size |-> 0, sizes |-> {}, pure |-> TRUE]

\* the sizes of the records of a database, summed
RECURSIVE SumSizes(_)
SumSizes(db) ==
    IF db = {} THEN 0
    ELSE LET p == CHOOSE q \in db : TRUE IN p[2] + SumSizes(db \ {p})

\* the databases a store can be opened on: records left by an earlier
\* instance, one size per id
StoredBefore ==
    {db \in SUBSET ((0..(MaxId - 1)) \X RecSizes) :
       \A p \in db, q \in db : p[1] = q[1] => p = q}

\* variant: the counter restarts at the last key itself
NextIdOnOpenLast(db) == IF KvLast(db).found THEN KvLast(db).pos[1] ELSE 0

\* RecordStoreMDB::RecordStoreMDB on a normal namespace: cursor.last()
NextIdOnOpen(db) == IF KvLast(db).found THEN KvLast(db).pos[1] + 1 ELSE 0

\* a store opened on a database whose NamespaceDetails counts its records
InitRS ==
    /\ recs \in StoredBefore
    /\ nextId = NextIdOnOpen(recs)
    /\ dataSize = SumSizes(recs)
    /\ numRecords = Cardinality(recs)
    /\ capped \in BOOLEAN
    /\ maxSize \in 1..MaxCapSize
    /\ maxDocs \in 1..MaxCapDocs
    /\ capped => (dataSize <= maxSize /\ numRecords <= maxDocs)
    /\ rsLast = [op |-> "open", id |-> 0, ok |-> TRUE]
    /\ rsHist = [NoHist EXCEPT !.pure = (recs = {})]

RsAlive == rsLast.ok

\* what both insertRecord overloads do to the store
InsertRecordStep(size, op) ==
    /\ RsAlive
    /\ nextId < MaxId
    /\ LET r == InsertRecordOp(recs, nextId, size, dataSize, numRecords,
                               capped, maxSize, maxDocs)
       IN /\ recs' = r.db
          /\ dataSize' = r.ds
          /\ numRecords' = r.nr
          /\ rsLast' = [op |-> op, id |-> nextId, ok |-> r.ok]
          /\ rsHist' = IF r.ok
                       THEN [rsHist EXCEPT !.issued = @ \cup {nextId}, !.size = size,
                                         !.sizes = @ \cup {size}]
                       ELSE rsHist
    /\ nextId' = nextId + 1
    /\ UNCHANGED <<capped, maxSize, maxDocs>>

\* insertRecord(const DocWriter* doc, int quotaMax): MDB_RESERVE | MDB_APPEND
InsertRecordDoc(size) == InsertRecordStep(size, "insertDoc")

\* insertRecord(const char* data, int len, int quotaMax): MDB_APPEND
InsertRecordRaw(size) == InsertRecordStep(size, "insertRaw")

\* RecordStoreMDB::deleteRecord of an existing record
DeleteRecord(id) ==
    /\ RsAlive
    /\ \E p \in recs :
         /\ p[1] = id
         /\ recs' = KvDel(recs, p)
         /\ dataSize' = dataSize - p[2]
         /\ numRecords' = numRecords - 1
    /\ rsLast' = [op |-> "delete", id |-> id, ok |-> TRUE]
    /\ rsHist' = [rsHist EXCEPT !.pure = FALSE]
    /\ UNCHANGED <<nextId, capped, maxSize, maxDocs>>

\* RecordStoreMDB::truncate: empties the database, leaves the stats alone
Truncate ==
    /\ RsAlive
    /\ recs' = {}
    /\ rsLast' = [op |-> "truncate", id |-> 0, ok |-> TRUE]
    /\ rsHist' = [rsHist EXCEPT !.pure = FALSE]
    /\ UNCHANGED <<nextId, dataSize, numRecords, capped, maxSize, maxDocs>>

\* ------------------------------------------------- record store: id width

\* the width of the record id (uint32_t in the source), scaled down
IdBits == 3

\* the number of values of the id type
IdWord == 2 ^ IdBits

\* int(id): the conversion of the unsigned id to the signed type of its width
IdAsInt(id) == IF id >= IdWord \div 2 THEN id - IdWord ELSE id

\* maxDiskLoc.getOfs(): the largest value of the signed type (0x7FFFFFFF)
MaxDiskLocOfs == IdWord \div 2 - 1

\* auto id = _nextId++ on the unsigned counter
NextIdAfter(id) == (id + 1) % IdWord

\* invariant(int(id) <= maxDiskLoc.getOfs())
IdGuard(id) == IdAsInt(id) <= MaxDiskLocOfs

\* a store opened on an empty database of a collection without a cap
InitIds ==
    /\ recs = {}
    /\ nextId = NextIdOnOpen(recs)
    /\ dataSize = 0
    /\ numRecords = 0
    /\ capped = FALSE
    /\ maxSize = 1
    /\ maxDocs = 1
    /\ rsLast = [op |-> "open", id |-> 0, ok |-> TRUE]
    /\ rsHist = NoHist

\* insertRecord with the id arithmetic of the source: the counter wraps, the
\* guard is taken on the converted id, then put, incrementStats,
\* cappedPostInsert
InsertRecord32(size) ==
    /\ RsAlive
    /\ LET r == IF IdGuard(nextId)
                THEN InsertRecordOp(recs, nextId, size, dataSize, numRecords,
                                    capped, maxSize, maxDocs)
                ELSE [db |-> recs, ds |-> dataSize, nr |-> numRecords, ok |-> FALSE]
       IN /\ recs' = r.db
          /\ dataSize' = r.ds
          /\ numRecords' = r.nr
          /\ rsLast' = [op |-> "insert32", id |-> nextId, ok |-> r.ok]
          /\ rsHist' = IF r.ok
                       THEN [rsHist EXCEPT !.issued = @ \cup {nextId}, !.size = size,
                                         !.sizes = @ \cup {size}]
                       ELSE rsHist
    /\ nextId' = NextIdAfter(nextId)
    /\ UNCHANGED <<capped, maxSize, maxDocs>>

\* --------------------------------------------------------------- bulk build

\* RARELY polls once in PollEvery passes
PollEvery == 2

\* RARELY: the counter after this pass, and whether this pass polls
RarelyNext(c) == (c + 1) % PollEvery
RarelyHit(c) == RarelyNext(c) = 0

\* uassert(tooManyDupsCode, ..., dupsToDrop->size() < 1000000)
DupsCap == 1000000

\* the order of the external sorter: by key, then by locator
RECURSIVE SortedPairs(_)
SortedPairs(S) ==
    IF S = {} THEN <<>> ELSE <<MinPair(S)>> \o SortedPairs(S \ {MinPair(S)})

\* commit: dupsAllowed = !unique || ignoreUniqueIndex(descriptor)
BulkDupsAllowed(isUnique) == ~isUnique

\* commit: `first` is set before the loop and not assigned in it
BulkFirst == TRUE

\* commit: `lastKey` is an empty mdb::Data before the loop and not assigned in it
BulkLastKey == 0

\* variant: the poll does not look at mayInterrupt
InterruptWithoutMay(c, mi, kill) == RarelyHit(c) /\ kill

\* RARELY if (mayInterrupt) killCurrentOp.checkForInterrupt(): this pass throws
InterruptNow(c, mi, kill) == RarelyHit(c) /\ mi /\ kill

\* commit: matchesLast for the i-th sorted item
MatchesLast(items, i) == ~BulkFirst /\ items[i][1] = BulkLastKey

\* commit: the loop body after the interruption poll, for the i-th sorted item
CommitItem(db, dups, items, i, dupsAllowed, dd, toDrop) ==
    IF MatchesLast(items, i) /\ ~dupsAllowed
    THEN IF dd
         THEN LET t == toDrop \cup {items[i][2]}
              IN [db |-> db, toDrop |-> t,
                  status |-> IF Cardinality(t) < DupsCap THEN "OK"
                             ELSE "TooManyDuplicates"]
         ELSE [db |-> db, toDrop |-> toDrop, status |-> "DuplicateKey"]
    ELSE LET r == KvPut(db, dups, items[i][1], items[i][2], NoOverwriteFlag(dupsAllowed))
         IN [db |-> r.db, toDrop |-> toDrop,
             status |-> IF r.rc = "OK" THEN "OK" ELSE "Threw"]

\* SortPhaseOne::addKeys: a document with several keys makes the build multikey
AddKeysMulti(multi, K) == multi \/ Cardinality(K) > 1

InitBulk ==
    /\ dropDups \in BOOLEAN
    /\ bulkPhase = "none"
    /\ sorter = {}
    /\ bulkMulti = FALSE
    /\ bulkPos = 0
    /\ dupsToDrop = {}
    /\ mayInterrupt = FALSE
    /\ killPending = FALSE
    /\ killAt = 0
    /\ rarely \in 0..(PollEvery - 1)
    /\ bulkStatus = "none"

\* variant: the entry count is not looked at
HasDataNever(db) == FALSE

\* initiateBulk / commitBulk: stats.ms_entries > 0
HasData(db) == Cardinality(db) > 0

\* initiateBulk: NULL when the index has entries, else a builder
InitiateBulk ==
    /\ bulkPhase = "none"
    /\ IF HasData(idx)
       THEN /\ bulkStatus' = "NoBuilder"
            /\ UNCHANGED <<bulkPhase, sorter, bulkMulti>>
       ELSE /\ bulkStatus' = "Builder"
            /\ bulkPhase' = "filling"
            /\ sorter' = {}
            /\ bulkMulti' = FALSE
    /\ UNCHANGED <<dropDups, bulkPos, dupsToDrop, mayInterrupt, killPending, killAt,
                   rarely>>
    /\ UNCHANGED idxVars

\* BtreeBulkBase::insert: the keys of a document not yet handed to the builder
BulkInsert(K, loc) ==
    /\ bulkPhase = "filling"
    /\ K # {}
    /\ \A p \in sorter : p[2] # loc
    /\ sorter' = sorter \cup {<<k, loc>> : k \in K}
    /\ bulkMulti' = AddKeysMulti(bulkMulti, K)
    /\ UNCHANGED <<dropDups, bulkPhase, bulkPos, dupsToDrop, mayInterrupt,
                   killPending, killAt, rarely, bulkStatus>>
    /\ UNCHANGED idxVars

\* commitBulk up to the commit loop: the emptiness check, setMultikey, sort
CommitBulk(mi) ==
    /\ bulkPhase = "filling"
    /\ IF HasData(idx)
       THEN /\ bulkStatus' = "InternalError"
            /\ bulkPhase' = "done"
            /\ UNCHANGED <<multikey, mayInterrupt>>
       ELSE /\ multikey' = (multikey \/ bulkMulti)
            /\ bulkPhase' = "committing"
            /\ mayInterrupt' = mi
            /\ UNCHANGED bulkStatus
    /\ bulkPos' = 0
    /\ dupsToDrop' = {}
    /\ UNCHANGED <<dropDups, sorter, bulkMulti, killPending, killAt, rarely>>
    /\ UNCHANGED <<idx, unique, dupSort, ready, docs, ticket, fate, dupsUsed>>

\* one pass of the commit loop: it->more(), the RARELY poll, the item
CommitStep ==
    /\ bulkPhase = "committing"
    /\ LET items == SortedPairs(sorter)
       IN IF bulkPos = Len(items)
          THEN /\ bulkPhase' = "done"
               /\ bulkStatus' = "OK"
               /\ UNCHANGED <<idx, bulkPos, dupsToDrop, rarely>>
          ELSE /\ rarely' = RarelyNext(rarely)
               /\ IF InterruptNow(rarely, mayInterrupt, killPending)
                  THEN /\ bulkPhase' = "done"
                       /\ bulkStatus' = "Interrupted"
                       /\ UNCHANGED <<idx, bulkPos, dupsToDrop>>
                  ELSE LET r == CommitItem(idx, dupSort, items, bulkPos + 1,
                                           BulkDupsAllowed(unique), dropDups, dupsToDrop)
                       IN /\ idx' = r.db
                          /\ dupsToDrop' = r.toDrop
                          /\ bulkPos' = bulkPos + 1
                          /\ bulkPhase' = IF r.status = "OK" THEN "committing" ELSE "done"
                          /\ bulkStatus' = IF r.status = "OK" THEN bulkStatus ELSE r.status
    /\ UNCHANGED <<dropDups, sorter, bulkMulti, mayInterrupt, killPending, killAt>>
    /\ UNCHANGED <<unique, dupSort, ready, multikey, docs, ticket, fate, dupsUsed>>

\* another thread kills the operation while it commits
RaiseKill ==
    /\ bulkPhase = "committing"
    /\ ~killPending
    /\ killPending' = TRUE
    /\ killAt' = bulkPos
    /\ UNCHANGED <<dropDups, bulkPhase, sorter, bulkMulti, bulkPos, dupsToDrop,
                   mayInterrupt, rarely, bulkStatus>>
    /\ UNCHANGED idxVars

\* ------------------------------ key/value store: databases and transactions

KvKeys == 1..MaxKvKey
KvVals == 1..MaxKvVal

\* check(ret): anything but MDB_SUCCESS throws mdb::Error
Check(rc) == IF rc = "SUCCESS" THEN "OK" ELSE "Threw"

\* what a facade call did: st is "OK" (returned) or "Threw"; missing says that
\* the store answered MDB_NOTFOUND
Outcome(op, st, rc) == [op |-> op, st |-> st, missing |-> (rc = "NOTFOUND")]

\* mdb_get / mdb_del on a key, mdb_dbi_open on a name
MdbFind(db, k) == IF KvSeek(db, k) THEN "SUCCESS" ELSE "NOTFOUND"
MdbOpen(exists, create) == IF exists \/ create THEN "SUCCESS" ELSE "NOTFOUND"

\* variant: hasKey hands every return code to check
DbHasKeyChecked(db, k) == Check(MdbFind(db, k))

\* DB::hasKey: false on MDB_NOTFOUND, check(rc) otherwise
DbHasKey(db, k) ==
    LET rc == MdbFind(db, k)
    IN IF rc = "NOTFOUND" THEN "OK" ELSE Check(rc)

\* DB::get: check(mdb_get(...))
DbGet(db, k) == Check(MdbFind(db, k))

\* variant: put stores nothing
DbPutNothing(db, k, v) == db

\* DB::put with flags = 0 on a database without duplicates
DbPut(db, k, v) == {p \in db : p[1] # k} \cup {<<k, v>>}

\* DB::del(txn, key), DB::del(txn, key, data): check(mdb_del(...)); without
\* sorted duplicates the data is ignored
DbDel(db, k) == [st |-> Check(MdbFind(db, k)), db |-> {p \in db : p[1] # k}]

\* DB::openIfCan: false on MDB_NOTFOUND, check(rc) otherwise
DbOpenIfCan(exists, create) ==
    LET rc == MdbOpen(exists, create)
    IN IF rc = "NOTFOUND" THEN "OK" ELSE Check(rc)

\* DB::open: check(mdb_dbi_open(...))
DbOpen(exists, create) == Check(MdbOpen(exists, create))

\* Cursor::simple and Cursor::seek: boost::none / false on MDB_NOTFOUND
CursorOps ==
    {"first", "last", "next", "prev", "nextNoDup", "prevNoDup", "seek",
     "seekKey", "seekKeyVal", "seekRange", "seekRangeVal"}

CursorFound(op, db, pos, k, v) ==
    CASE op = "first" -> KvFirst(db).found
      [] op = "last" -> KvLast(db).found
      [] op = "next" -> KvNext(db, pos).found
      [] op = "prev" -> KvPrev(db, pos).found
      [] op = "nextNoDup" -> KvNextNoDup(db, pos).found
      [] op = "prevNoDup" -> KvPrevNoDup(db, pos).found
      [] op = "seek" -> KvSeek(db, k)
      [] op = "seekKey" -> KvSeekKey(db, k).found
      [] op = "seekKeyVal" -> KvSeekBoth(db, k, v).found
      [] op = "seekRange" -> KvSeekRange(db, k).found
      [] op = "seekRangeVal" -> KvSeekBothRange(db, k, v).found

InitKV ==
    /\ kvEnv = {}
    /\ kvExists = FALSE
    /\ kvOpen = FALSE
    /\ wtxns = <<>>
    /\ rtxn = [open |-> FALSE, view |-> {}]
    /\ kvLast = [op |-> "none", st |-> "OK", missing |-> FALSE]

\* the innermost write transaction and what it sees
Depth == Len(wtxns)
TopView == wtxns[Depth]

\* db.open / db.openIfCan under a write transaction of its own that commits
KvOpenDb(create, ifCan) ==
    /\ Depth = 0
    /\ ~kvOpen
    /\ LET rc == MdbOpen(kvExists, create)
           st == IF ifCan THEN DbOpenIfCan(kvExists, create)
                 ELSE DbOpen(kvExists, create)
       IN /\ kvLast' = Outcome(IF ifCan THEN "openIfCan" ELSE "open", st, rc)
          /\ kvOpen' = (rc = "SUCCESS")
          /\ kvExists' = (rc = "SUCCESS")
    /\ UNCHANGED <<kvEnv, wtxns, rtxn>>

\* Txn::Write(env, parent): a child starts from what its parent sees
TxnBeginWrite ==
    /\ kvOpen
    /\ Depth < MaxDepth
    /\ wtxns' = Append(wtxns, IF Depth = 0 THEN kvEnv ELSE TopView)
    /\ kvLast' = Outcome("beginWrite", "OK", "SUCCESS")
    /\ UNCHANGED <<kvEnv, kvExists, kvOpen, rtxn>>

\* variant: a commit to the environment also moves the open read transaction
\* to the new contents
TxnCommitMovesReader ==
    /\ Depth > 0
    /\ IF Depth = 1
       THEN kvEnv' = TopView
       ELSE UNCHANGED kvEnv
    /\ wtxns' = IF Depth = 1 THEN <<>>
                ELSE [SubSeq(wtxns, 1, Depth - 1) EXCEPT ![Depth - 1] = TopView]
    /\ kvLast' = Outcome("commit", "OK", "SUCCESS")
    /\ rtxn' = IF rtxn.open /\ Depth = 1 THEN [rtxn EXCEPT !.view = TopView] ELSE rtxn
    /\ UNCHANGED <<kvExists, kvOpen>>

\* Txn::commit of the innermost write transaction
TxnCommit ==
    /\ Depth > 0
    /\ IF Depth = 1
       THEN kvEnv' = TopView
       ELSE UNCHANGED kvEnv
    /\ wtxns' = IF Depth = 1 THEN <<>>
                ELSE [SubSeq(wtxns, 1, Depth - 1) EXCEPT ![Depth - 1] = TopView]
    /\ kvLast' = Outcome("commit", "OK", "SUCCESS")
    /\ UNCHANGED <<kvExists, kvOpen, rtxn>>

\* Txn::abort, or the end of the scope, of the innermost write transaction
TxnAbort ==
    /\ Depth > 0
    /\ wtxns' = SubSeq(wtxns, 1, Depth - 1)
    /\ kvLast' = Outcome("abort", "OK", "SUCCESS")
    /\ UNCHANGED <<kvEnv, kvExists, kvOpen, rtxn>>

\* Txn::Read(env), or reset() and renew(): a fresh snapshot
TxnBeginRead ==
    /\ kvOpen
    /\ rtxn' = [open |-> TRUE, view |-> kvEnv]
    /\ kvLast' = Outcome(IF rtxn.open THEN "renew" ELSE "beginRead", "OK", "SUCCESS")
    /\ UNCHANGED <<kvEnv, kvExists, kvOpen, wtxns>>

\* the read transaction ends
TxnEndRead ==
    /\ rtxn.open
    /\ rtxn' = [open |-> FALSE, view |-> {}]
    /\ kvLast' = Outcome("endRead", "OK", "SUCCESS")
    /\ UNCHANGED <<kvEnv, kvExists, kvOpen, wtxns>>

\* the views a call can read through: the innermost write transaction, the
\* read transaction
ReadViews ==
    (IF Depth > 0 THEN {TopView} ELSE {}) \cup (IF rtxn.open THEN {rtxn.view} ELSE {})

KvGet(k) ==
    /\ \E db \in ReadViews :
         kvLast' = Outcome("get", DbGet(db, k), MdbFind(db, k))
    /\ UNCHANGED <<kvEnv, kvExists, kvOpen, wtxns, rtxn>>

KvHasKey(k) ==
    /\ \E db \in ReadViews :
         kvLast' = Outcome("hasKey", DbHasKey(db, k), MdbFind(db, k))
    /\ UNCHANGED <<kvEnv, kvExists, kvOpen, wtxns, rtxn>>

\* a cursor opened on the transaction, placed at pos, then moved by op
KvCursor(op, k, v) ==
    /\ \E db \in ReadViews : \E pos \in db \cup {NoPos} :
         kvLast' = Outcome(op, "OK",
                           IF CursorFound(op, db, pos, k, v) THEN "SUCCESS"
                           ELSE "NOTFOUND")
    /\ UNCHANGED <<kvEnv, kvExists, kvOpen, wtxns, rtxn>>

KvPutTxn(k, v) ==
    /\ Depth > 0
    /\ wtxns' = [wtxns EXCEPT ![Depth] = DbPut(TopView, k, v)]
    /\ kvLast' = Outcome("put", "OK", "SUCCESS")
    /\ UNCHANGED <<kvEnv, kvExists, kvOpen, rtxn>>

\* del: a failed mdb_del throws and leaves the transaction as it was
KvDelTxn(k) ==
    /\ Depth > 0
    /\ LET r == DbDel(TopView, k)
       IN /\ wtxns' = IF r.st = "OK" THEN [wtxns EXCEPT ![Depth] = r.db] ELSE wtxns
          /\ kvLast' = Outcome("del", r.st, MdbFind(TopView, k))
    /\ UNCHANGED <<kvEnv, kvExists, kvOpen, rtxn>>

\* ---------------------------------------------------------- codecs (Adapter)

\* the bytes a buffer can hold here: NUL and two others
Bytes == {0, 1, 255}

\* n bytes of the unsigned number v, lowest byte first (the memory of a
\* little-endian machine)
RECURSIVE BytesOf(_, _)
BytesOf(v, n) == IF n = 0 THEN <<>> ELSE <<v % 256>> \o BytesOf(v \div 256, n - 1)

\* the unsigned number held in the bytes b, lowest byte first
RECURSIVE NumberOf(_)
NumberOf(b) == IF b = <<>> THEN 0 ELSE Head(b) + 256 * NumberOf(Tail(b))

\* the memory of a 32-bit int: two's complement
IntBytes(v) ==
    IF v >= 0 THEN BytesOf(v, 4)
    ELSE LET u == BytesOf((v + 2147483647) + 1, 4)
         IN [u EXCEPT ![4] = u[4] + 128]

IntOf(b) ==
    IF b[4] < 128 THEN NumberOf(b)
    ELSE (NumberOf([b EXCEPT ![4] = b[4] - 128]) - 2147483647) - 1

CodecTypes == {"uint32", "uint64", "DiskLoc", "string", "StringData", "BSONObj", "KeyV1"}
FixedWidth == {"uint32", "uint64", "DiskLoc"}

\* variant: every fixed-width type is taken to be four bytes wide
SizeOfWord(type) == 4

\* sizeof(T)
SizeOf(type) ==
    CASE type = "uint32" -> 4
      [] type = "uint64" -> 8
      [] type = "DiskLoc" -> 8

CodecInts == {0, 1, 255, 256, 65535, 65536, 16777216, 2147483647}
CodecLocs == {-1, 0, 1, 256, -2147483647} \X {-1, 0, 256}
RECURSIVE StringsUpTo(_)
StringsUpTo(n) ==
    IF n = 0 THEN {<<>>}
    ELSE LET S == StringsUpTo(n - 1)
         IN S \cup {Append(x, b) : x \in S, b \in Bytes}
CodecStrings == StringsUpTo(MaxStrLen)

\* a document: its elements; a key: its compact bytes
ValuesOf(type) ==
    CASE type \in {"uint32", "uint64"} -> CodecInts
      [] type = "DiskLoc" -> CodecLocs
      [] OTHER -> CodecStrings

\* BSONObj::objdata(): int32 total size, the elements, EOO
ObjData(elems) == IntBytes(Len(elems) + 5) \o elems \o <<0>>

\* KeyV1::data(): a buffer that tells its own size (one size byte, the bytes)
KeyData(k) == <<Len(k)>> \o k
KeyDataSize(buf) == 1 + buf[1]

\* Adapter<T>::toMDB: the Data(size, pointer) handed to the store
ToMDB(type, v) ==
    CASE type = "uint32" -> BytesOf(v, 4)
      [] type = "uint64" -> BytesOf(v, 8)
      [] type = "DiskLoc" -> IntBytes(v[1]) \o IntBytes(v[2])
      [] type = "string" -> v
      [] type = "StringData" -> v
      [] type = "BSONObj" -> ObjData(v)
      [] type = "KeyV1" -> SubSeq(KeyData(v), 1, KeyDataSize(KeyData(v)))

\* invariant(data.mv_size == sizeof(T)) of the fixed-width decoders
LengthChecked(type, view) == Len(view) = SizeOf(type)

\* what a decoder gives: the value it returns, or nothing when its invariant
\* fails
Returns(v) == <<v>>
InvariantFails == <<>>

\* Adapter<T>::fromMDB on a view the matching toMDB made, or any view for the
\* fixed-width types
FromMDB(type, view) ==
    CASE type \in FixedWidth ->
           IF ~LengthChecked(type, view) THEN InvariantFails
           ELSE IF type = "DiskLoc"
           THEN Returns(<<IntOf(SubSeq(view, 1, 4)), IntOf(SubSeq(view, 5, 8))>>)
           ELSE Returns(NumberOf(view))
      [] type \in {"string", "StringData"} -> Returns(view)
      [] type = "BSONObj" ->
           IF IntOf(SubSeq(view, 1, 4)) # Len(view) THEN InvariantFails
           ELSE Returns(SubSeq(view, 5, Len(view) - 1))
      [] type = "KeyV1" -> Returns(SubSeq(view, 2, KeyDataSize(view)))

NoCodec == [type |-> "none", val |-> 0, view |-> <<>>, out |-> <<>>, phase |-> "none"]

InitCodec ==
    \E type \in CodecTypes : \E v \in ValuesOf(type) :
      codec = [type |-> type, val |-> v, view |-> <<>>, out |-> <<>>, phase |-> "value"]

\* Data(const T& from): the value is converted for the store
Encode ==
    /\ codec.phase = "value"
    /\ codec' = [codec EXCEPT !.view = ToMDB(codec.type, codec.val), !.phase = "view"]

\* Data::as<T>() on the view just made
Decode ==
    /\ codec.phase = "view"
    /\ codec' = [codec EXCEPT !.out = FromMDB(codec.type, codec.view),
                              !.phase = "decoded"]

\* Data::as<T>() of a fixed-width type on a view of any length
DecodeAny(type, n) ==
    /\ codec.phase = "decoded"
    /\ LET view == [i \in 1..n |-> IF i = 1 THEN 1 ELSE 0]
       IN codec' = [type |-> type, val |-> 0, view |-> view,
                    out |-> FromMDB(type, view), phase |-> "foreign"]

\* ------------------------------------------------- cursor traversal (mdb.h)

\* the ways of walking a database with one cursor call repeated
WalkModes == {"next", "prev", "nextNoDup"}

\* variant: every call of the walk is wired to MDB_NEXT_NODUP
WalkMoveNoDup(mode, db, pos) == KvNextNoDup(db, pos)

\* Cursor::next / Cursor::prev / Cursor::nextNoDup: simple(MDB_NEXT),
\* simple(MDB_PREV), simple(MDB_NEXT_NODUP)
WalkMove(mode, db, pos) ==
    CASE mode = "next" -> KvNext(db, pos)
      [] mode = "prev" -> KvPrev(db, pos)
      [] mode = "nextNoDup" -> KvNextNoDup(db, pos)

NoWalk ==
    [db |-> {}, dups |-> FALSE, keys |-> {}, mode |-> "none", pos |-> NoPos,
     seen |-> <<>>, done |-> FALSE]

\* an empty database, created with or without sorted duplicates
InitWalk == \E d \in BOOLEAN : walk = [NoWalk EXCEPT !.dups = d]

\* a write transaction of its own: db.put(txn, k, v); txn.commit()
WalkPut(k, v) ==
    /\ walk.mode = "none"
    /\ walk' = [walk EXCEPT
                  !.db = IF walk.dups THEN KvPut(@, TRUE, k, v, FALSE).db
                         ELSE DbPut(@, k, v),
                  !.keys = @ \cup {k}]

\* a read transaction and a fresh cursor on it
WalkOpen(mode) ==
    /\ walk.mode = "none"
    /\ walk' = [walk EXCEPT !.mode = mode, !.pos = NoPos, !.seen = <<>>,
                            !.done = FALSE]

\* one turn of: while (auto kv = cursor.nextNoDup()) { i++; }
WalkStep ==
    /\ walk.mode \in WalkModes
    /\ ~walk.done
    /\ LET r == WalkMove(walk.mode, walk.db, walk.pos)
       IN walk' = IF r.found
                  THEN [walk EXCEPT !.pos = r.pos, !.seen = Append(@, r.pos)]
                  ELSE [walk EXCEPT !.done = TRUE]

\* the cursor and its read transaction go out of scope
WalkClose ==
    /\ walk.mode \in WalkModes
    /\ walk' = [walk EXCEPT !.mode = "none", !.pos = NoPos, !.seen = <<>>,
                            !.done = FALSE]

\* ------------------------------------------- transactions: threads, scopes

Threads == 1..MaxThreads

Writers == {t \in Threads : wstat[t] = "writing"}
Blocked == {t \in Threads : wstat[t] = "blocked"}

\* a thread calls Txn::Write(env) without a parent: mdb_txn_begin waits for
\* the writer lock of the environment
WriteCall(t) ==
    /\ kvOpen
    /\ wstat[t] = "idle"
    /\ wstat' = [wstat EXCEPT ![t] = "blocked"]
    /\ UNCHANGED <<kvVars, scope, gone>>

\* variant: mdb_txn_begin returns without the writer lock
WriteReturnUnlocked(t) ==
    /\ wstat[t] = "blocked"
    /\ wtxns' = <<kvEnv>>
    /\ kvLast' = Outcome("beginWrite", "OK", "SUCCESS")
    /\ wstat' = [wstat EXCEPT ![t] = "writing"]
    /\ UNCHANGED <<kvEnv, kvExists, kvOpen, rtxn, scope, gone>>

\* Txn::Write returns in thread t: the writer lock is free and t takes it
WriteReturn(t) ==
    /\ wstat[t] = "blocked"
    /\ Writers = {}
    /\ Depth = 0
    /\ TxnBeginWrite
    /\ wstat' = [wstat EXCEPT ![t] = "writing"]
    /\ UNCHANGED <<scope, gone>>

\* the writing thread puts a pair
WriterPut(t, k, v) ==
    /\ wstat[t] = "writing"
    /\ KvPutTxn(k, v)
    /\ UNCHANGED thrVars

\* the writing thread commits or aborts and releases the writer lock
WriterEnd(t, commit) ==
    /\ wstat[t] = "writing"
    /\ Depth = 1
    /\ IF commit THEN TxnCommit ELSE TxnAbort
    /\ wstat' = [wstat EXCEPT ![t] = "idle"]
    /\ UNCHANGED <<scope, gone>>

\* a thread begins, renews or ends the read transaction
ReaderBegin == TxnBeginRead /\ UNCHANGED thrVars
ReaderEnd == TxnEndRead /\ UNCHANGED thrVars

\* the underlying transaction of the i-th Txn in scope has not been ended
Live(i) == scope[i].ends = 0

\* the i-th Txn in scope is the innermost one whose transaction is running
Innermost(i) == Live(i) /\ \A j \in (i + 1)..Len(scope) : ~Live(j)

\* variant: commit passes _txn.get() and keeps the pointer
CommitKeepsPointer(held) == held

\* commit: _txn.release() leaves the Txn without a transaction
CommitReleases(held) == FALSE

\* abort: _txn.reset() ends the transaction through the deleter and leaves the
\* Txn without one
AbortResets(held) == FALSE

\* a Txn is constructed by Txn::Write(env, parent) in a new scope, as a child
\* of the innermost running transaction
ScopeBegin ==
    /\ Len(scope) < MaxDepth
    /\ TxnBeginWrite
    /\ scope' = Append(scope, [held |-> TRUE, ends |-> 0])
    /\ UNCHANGED <<wstat, gone>>

\* commit() on the i-th Txn in scope
ScopeCommit(i) ==
    /\ Innermost(i)
    /\ TxnCommit
    /\ scope' = [scope EXCEPT ![i] = [held |-> CommitReleases(scope[i].held),
                                      ends |-> scope[i].ends + 1]]
    /\ UNCHANGED <<wstat, gone>>

\* abort() on the i-th Txn in scope
ScopeAbort(i) ==
    /\ Innermost(i)
    /\ TxnAbort
    /\ scope' = [scope EXCEPT ![i] = [held |-> AbortResets(scope[i].held),
                                      ends |-> scope[i].ends + 1]]
    /\ UNCHANGED <<wstat, gone>>

\* the innermost scope ends: ~Txn destroys _txn, whose deleter mdb_txn_abort
\* runs when the pointer is not null
ScopeExit ==
    /\ Len(scope) > 0
    /\ LET top == scope[Len(scope)]
       IN /\ IF top.held /\ top.ends = 0
             THEN TxnAbort
             ELSE UNCHANGED kvVars
          /\ gone' = top.ends + (IF top.held THEN 1 ELSE 0)
    /\ scope' = SubSeq(scope, 1, Len(scope) - 1)
    /\ UNCHANGED wstat

\* a put through the innermost Txn in scope, which holds its transaction
ScopePut(k, v) ==
    /\ Len(scope) > 0
    /\ Innermost(Len(scope))
    /\ KvPutTxn(k, v)
    /\ UNCHANGED thrVars

\* ----------------------------------------------------------- specifications

\* the parts a specification does not exercise, as constructed
IdleIdx ==
    /\ idx = {}
    /\ unique = FALSE
    /\ dupSort = TRUE
    /\ ready = TRUE
    /\ multikey = FALSE
    /\ docs = [l \in Locs |-> {}]
    /\ ticket = NoTicket
    /\ fate = "running"
    /\ dupsUsed = FALSE

IdleCur ==
    /\ curDir = 1
    /\ curEof = FALSE
    /\ curPos = NoPos
    /\ curAttached = TRUE
    /\ savedKey = 0
    /\ savedLoc = NullLoc
    /\ curOp = "new"
    /\ dirty = FALSE

IdleRS ==
    /\ recs = {}
    /\ nextId = 0
    /\ dataSize = 0
    /\ numRecords = 0
    /\ capped = FALSE
    /\ maxSize = 1
    /\ maxDocs = 1
    /\ rsLast = [op |-> "none", id |-> 0, ok |-> TRUE]
    /\ rsHist = NoHist

IdleBulk ==
    /\ dropDups = FALSE
    /\ bulkPhase = "none"
    /\ sorter = {}
    /\ bulkMulti = FALSE
    /\ bulkPos = 0
    /\ dupsToDrop = {}
    /\ mayInterrupt = FALSE
    /\ killPending = FALSE
    /\ killAt = 0
    /\ rarely = 0
    /\ bulkStatus = "none"

\* the index access method, called with any document at any locator; an
\* update is validateUpdate on the keys indexed for the locator, then update
IdleKV == InitKV

IdleThr ==
    /\ wstat = [t \in Threads |-> "idle"]
    /\ scope = <<>>
    /\ gone = 1

IdleCodec == codec = NoCodec
IdleWalk == walk = NoWalk
IdlePeer == peer = NoPeer

Init == InitIdx /\ IdleCur /\ IdleRS /\ IdleBulk /\ IdleKV /\ IdleThr /\ IdleCodec /\ IdleWalk /\ IdlePeer

Next ==
    \/ \E K \in KeySets, loc \in Locs, d \in BOOLEAN :
         Insert(K, loc, d) /\ UNCHANGED <<docs, curVars, rsVars, bulkVars, kvVars, thrVars, codecVars, walkVars, peerVars>>
    \/ \E K \in KeySets, loc \in Locs, l \in BOOLEAN :
         Remove(K, loc, l) /\ UNCHANGED <<docs, curVars, rsVars, bulkVars, kvVars, thrVars, codecVars, walkVars, peerVars>>
    \/ \E loc \in Locs, to \in KeySets, d \in BOOLEAN :
         ValidateUpdate(KeysAt(idx, loc), to, loc, d) /\ UNCHANGED <<docs, curVars, rsVars, bulkVars, kvVars, thrVars, codecVars, walkVars, peerVars>>
    \/ Update /\ UNCHANGED <<docs, curVars, rsVars, bulkVars, kvVars, thrVars, codecVars, walkVars, peerVars>>

Spec == Init /\ [][Next]_vars

\* the index access method as the collection calls it: insert for a new
\* document at a free locator, remove and update for the document stored at
\* the locator; docs is the collection
CollInsert(K, loc, dupsAllowed) ==
    /\ docs[loc] = {}
    /\ Insert(K, loc, dupsAllowed)
    /\ docs' = IF InsertOp(idx, dupSort, ready, K, loc, dupsAllowed).status = "OK"
               THEN [docs EXCEPT ![loc] = K] ELSE docs

CollRemove(loc, logIfError) ==
    /\ docs[loc] # {}
    /\ Remove(docs[loc], loc, logIfError)
    /\ docs' = [docs EXCEPT ![loc] = {}]

CollValidateUpdate(loc, to, dupsAllowed) ==
    /\ docs[loc] # {}
    /\ ValidateUpdate(docs[loc], to, loc, dupsAllowed)
    /\ UNCHANGED docs

CollUpdate ==
    /\ Update
    /\ docs' = IF UpdateOp(idx, dupSort, ticket).status = "OK"
               THEN [docs EXCEPT ![ticket.loc] = ticket.newKeys]
               ELSE docs

NextCollection ==
    \/ \E K \in KeySets, loc \in Locs, d \in BOOLEAN :
         CollInsert(K, loc, d) /\ UNCHANGED <<curVars, rsVars, bulkVars, kvVars, thrVars, codecVars, walkVars, peerVars>>
    \/ \E loc \in Locs, l \in BOOLEAN :
         CollRemove(loc, l) /\ UNCHANGED <<curVars, rsVars, bulkVars, kvVars, thrVars, codecVars, walkVars, peerVars>>
    \/ \E loc \in Locs, to \in KeySets, d \in BOOLEAN :
         CollValidateUpdate(loc, to, d) /\ UNCHANGED <<curVars, rsVars, bulkVars, kvVars, thrVars, codecVars, walkVars, peerVars>>
    \/ CollUpdate /\ UNCHANGED <<curVars, rsVars, bulkVars, kvVars, thrVars, codecVars, walkVars, peerVars>>

SpecCollection == Init /\ [][NextCollection]_vars

\* the index cursor over a database that other cursors change
idxRest == <<unique, dupSort, ready, multikey, docs, ticket, fate, dupsUsed>>

InitCursor ==
    /\ idx = {}
    /\ dupSort \in BOOLEAN
    /\ unique = ~dupSort
    /\ ready = TRUE
    /\ multikey = FALSE
    /\ docs = [l \in Locs |-> {}]
    /\ ticket = NoTicket
    /\ fate = "running"
    /\ dupsUsed = FALSE
    /\ InitCur
    /\ IdleRS
    /\ IdleBulk
    /\ IdleKV /\ IdleThr /\ IdleCodec /\ IdleWalk /\ IdlePeer

NextCursor ==
    \/ \E dir \in {1, -1} : NewCursor(dir) /\ UNCHANGED <<idxRest, rsVars, bulkVars, kvVars, thrVars, codecVars, walkVars, peerVars>>
    \/ \E k \in Keys : CurSeek(k) /\ UNCHANGED <<idxRest, rsVars, bulkVars, kvVars, thrVars, codecVars, walkVars, peerVars>>
    \/ \E k \in Keys, a \in BOOLEAN : CurSeekAfter(k, a) /\ UNCHANGED <<idxRest, rsVars, bulkVars, kvVars, thrVars, codecVars, walkVars, peerVars>>
    \/ CurNext /\ UNCHANGED <<idxRest, rsVars, bulkVars, kvVars, thrVars, codecVars, walkVars, peerVars>>
    \/ CurSave /\ UNCHANGED <<idxRest, rsVars, bulkVars, kvVars, thrVars, codecVars, walkVars, peerVars>>
    \/ CurRestore /\ UNCHANGED <<idxRest, rsVars, bulkVars, kvVars, thrVars, codecVars, walkVars, peerVars>>
    \/ \E k \in Keys, v \in Locs : OtherPut(k, v) /\ UNCHANGED <<idxRest, rsVars, bulkVars, kvVars, thrVars, codecVars, walkVars, peerVars>>
    \/ \E k \in Keys, v \in Locs : OtherDelete(k, v) /\ UNCHANGED <<idxRest, rsVars, bulkVars, kvVars, thrVars, codecVars, walkVars, peerVars>>

SpecCursor == InitCursor /\ [][NextCursor]_vars

\* a cursor scanning an index that was filled before the cursor was made and
\* does not change during the scan
NextScan ==
    \/ \E k \in Keys, v \in Locs : (curOp = "new" /\ curPos = NoPos /\ OtherPut(k, v)) /\ UNCHANGED <<idxRest, rsVars, bulkVars, kvVars, thrVars, codecVars, walkVars, peerVars>>
    \/ \E dir \in {1, -1} : NewCursor(dir) /\ UNCHANGED <<idxRest, rsVars, bulkVars, kvVars, thrVars, codecVars, walkVars, peerVars>>
    \/ \E k \in Keys : CurSeek(k) /\ UNCHANGED <<idxRest, rsVars, bulkVars, kvVars, thrVars, codecVars, walkVars, peerVars>>
    \/ \E k \in Keys, a \in BOOLEAN : CurSeekAfter(k, a) /\ UNCHANGED <<idxRest, rsVars, bulkVars, kvVars, thrVars, codecVars, walkVars, peerVars>>
    \/ CurNext /\ UNCHANGED <<idxRest, rsVars, bulkVars, kvVars, thrVars, codecVars, walkVars, peerVars>>
    \/ CurNextAtEof /\ UNCHANGED <<idxRest, rsVars, bulkVars, kvVars, thrVars, codecVars, walkVars, peerVars>>

SpecScan == InitCursor /\ [][NextScan]_vars

\* the record store
InitRecords == IdleIdx /\ IdleCur /\ InitRS /\ IdleBulk /\ IdleKV /\ IdleThr /\ IdleCodec /\ IdleWalk /\ IdlePeer

NextRecords ==
    \/ \E s \in RecSizes : InsertRecordDoc(s) /\ UNCHANGED <<idxVars, curVars, bulkVars, kvVars, thrVars, codecVars, walkVars, peerVars>>
    \/ \E s \in RecSizes : InsertRecordRaw(s) /\ UNCHANGED <<idxVars, curVars, bulkVars, kvVars, thrVars, codecVars, walkVars, peerVars>>
    \/ \E id \in 0..MaxId : DeleteRecord(id) /\ UNCHANGED <<idxVars, curVars, bulkVars, kvVars, thrVars, codecVars, walkVars, peerVars>>
    \/ Truncate /\ UNCHANGED <<idxVars, curVars, bulkVars, kvVars, thrVars, codecVars, walkVars, peerVars>>

SpecRecords == InitRecords /\ [][NextRecords]_vars

\* the record store with ids of the source's width
InitWidth == IdleIdx /\ IdleCur /\ InitIds /\ IdleBulk /\ IdleKV /\ IdleThr /\ IdleCodec /\ IdleWalk /\ IdlePeer

NextWidth ==
    \/ \E s \in RecSizes : InsertRecord32(s) /\ UNCHANGED <<idxVars, curVars, bulkVars, kvVars, thrVars, codecVars, walkVars, peerVars>>
    \/ \E id \in 0..(IdWord - 1) : DeleteRecord(id) /\ UNCHANGED <<idxVars, curVars, bulkVars, kvVars, thrVars, codecVars, walkVars, peerVars>>

SpecWidth == InitWidth /\ [][NextWidth]_vars

\* the bulk build of an index that is not READY yet; one document may be
\* inserted into the still empty index directly
InitBuild ==
    /\ idx = {}
    /\ unique \in BOOLEAN
    /\ dupSort \in DupSortChoices(unique)
    /\ ready = FALSE
    /\ multikey = FALSE
    /\ docs = [l \in Locs |-> {}]
    /\ ticket = NoTicket
    /\ fate = "running"
    /\ dupsUsed = FALSE
    /\ IdleCur
    /\ IdleRS
    /\ IdleKV /\ IdleThr /\ IdleCodec /\ IdleWalk /\ IdlePeer
    /\ InitBulk

NextBuild ==
    \/ InitiateBulk /\ UNCHANGED <<curVars, rsVars, kvVars, thrVars, codecVars, walkVars, peerVars>>
    \/ \E K \in KeySets, loc \in Locs : BulkInsert(K, loc) /\ UNCHANGED <<curVars, rsVars, kvVars, thrVars, codecVars, walkVars, peerVars>>
    \/ \E k \in Keys, loc \in Locs :
         /\ idx = {}
         /\ bulkPhase \in {"none", "filling"}
         /\ Insert({k}, loc, BulkDupsAllowed(unique))
         /\ UNCHANGED <<docs, curVars, rsVars, bulkVars, kvVars, thrVars, codecVars, walkVars, peerVars>>
    \/ \E mi \in BOOLEAN : CommitBulk(mi) /\ UNCHANGED <<curVars, rsVars, kvVars, thrVars, codecVars, walkVars, peerVars>>
    \/ CommitStep /\ UNCHANGED <<curVars, rsVars, kvVars, thrVars, codecVars, walkVars, peerVars>>
    \/ RaiseKill /\ UNCHANGED <<curVars, rsVars, kvVars, thrVars, codecVars, walkVars, peerVars>>

SpecBuild == InitBuild /\ [][NextBuild]_vars

\* the key/value facade on one named database: the calls of DB and Cursor,
\* made through a write transaction or a read transaction
InitStore == IdleIdx /\ IdleCur /\ IdleRS /\ IdleBulk /\ InitKV /\ IdleThr /\ IdleCodec /\ IdleWalk /\ IdlePeer

storeRest == <<idxVars, curVars, rsVars, bulkVars, thrVars, codecVars, walkVars, peerVars>>

NextStore ==
    \/ \E c \in BOOLEAN, i \in BOOLEAN : KvOpenDb(c, i) /\ UNCHANGED storeRest
    \/ Depth = 0 /\ TxnBeginWrite /\ UNCHANGED storeRest
    \/ TxnCommit /\ UNCHANGED storeRest
    \/ TxnAbort /\ UNCHANGED storeRest
    \/ TxnBeginRead /\ UNCHANGED storeRest
    \/ TxnEndRead /\ UNCHANGED storeRest
    \/ \E k \in KvKeys : KvGet(k) /\ UNCHANGED storeRest
    \/ \E k \in KvKeys : KvHasKey(k) /\ UNCHANGED storeRest
    \/ \E op \in CursorOps, k \in KvKeys, v \in KvVals :
         KvCursor(op, k, v) /\ UNCHANGED storeRest
    \/ \E k \in KvKeys, v \in KvVals : KvPutTxn(k, v) /\ UNCHANGED storeRest
    \/ \E k \in KvKeys : KvDelTxn(k) /\ UNCHANGED storeRest

SpecStore == InitStore /\ [][NextStore]_vars

\* transactions on the database once it is created and open: nested write
\* transactions and a read transaction
InitTxn ==
    /\ IdleIdx /\ IdleCur /\ IdleRS /\ IdleBulk /\ IdleThr /\ IdleCodec /\ IdleWalk /\ IdlePeer
    /\ kvEnv = {}
    /\ kvExists = TRUE
    /\ kvOpen = TRUE
    /\ wtxns = <<>>
    /\ rtxn = [open |-> FALSE, view |-> {}]
    /\ kvLast = Outcome("open", "OK", "SUCCESS")

NextTxn ==
    \/ TxnBeginWrite /\ UNCHANGED storeRest
    \/ TxnCommit /\ UNCHANGED storeRest
    \/ TxnAbort /\ UNCHANGED storeRest
    \/ TxnBeginRead /\ UNCHANGED storeRest
    \/ TxnEndRead /\ UNCHANGED storeRest
    \/ \E k \in KvKeys, v \in KvVals : KvPutTxn(k, v) /\ UNCHANGED storeRest
    \/ \E k \in KvKeys : KvDelTxn(k) /\ UNCHANGED storeRest

SpecTxn == InitTxn /\ [][NextTxn]_vars

\* threads that begin top-level write transactions and read transactions on
\* one environment
InitWriters == InitTxn

thrRest == <<idxVars, curVars, rsVars, bulkVars, codecVars, walkVars, peerVars>>

NextWriters ==
    \/ \E t \in Threads : WriteCall(t) /\ UNCHANGED thrRest
    \/ \E t \in Threads : WriteReturn(t) /\ UNCHANGED thrRest
    \/ \E t \in Threads, k \in KvKeys, v \in KvVals :
         WriterPut(t, k, v) /\ UNCHANGED thrRest
    \/ \E t \in Threads, c \in BOOLEAN : WriterEnd(t, c) /\ UNCHANGED thrRest
    \/ ReaderBegin /\ UNCHANGED thrRest
    \/ ReaderEnd /\ UNCHANGED thrRest

\* the writer lock is handed to a blocked thread once it is free
SpecWriters ==
    /\ InitWriters
    /\ [][NextWriters]_vars
    /\ WF_vars(\E t \in Threads : WriteReturn(t) /\ UNCHANGED thrRest)

\* Txn objects in nested scopes of one thread
InitScope == InitTxn

NextScope ==
    \/ ScopeBegin /\ UNCHANGED thrRest
    \/ \E i \in 1..MaxDepth : i <= Len(scope) /\ ScopeCommit(i) /\ UNCHANGED thrRest
    \/ \E i \in 1..MaxDepth : i <= Len(scope) /\ ScopeAbort(i) /\ UNCHANGED thrRest
    \/ ScopeExit /\ UNCHANGED thrRest
    \/ \E k \in KvKeys, v \in KvVals : ScopePut(k, v) /\ UNCHANGED thrRest
    \/ ReaderBegin /\ UNCHANGED thrRest
    \/ ReaderEnd /\ UNCHANGED thrRest

SpecScope == InitScope /\ [][NextScope]_vars

\* conversions through the Adapter specializations
InitConvert ==
    /\ IdleIdx /\ IdleCur /\ IdleRS /\ IdleBulk /\ IdleKV /\ IdleThr /\ IdleWalk /\ IdlePeer
    /\ InitCodec

codecRest == <<idxVars, curVars, rsVars, bulkVars, kvVars, thrVars, walkVars, peerVars>>

NextConvert ==
    \/ Encode /\ UNCHANGED codecRest
    \/ Decode /\ UNCHANGED codecRest
    \/ \E type \in FixedWidth, n \in 0..MaxViewLen :
         DecodeAny(type, n) /\ UNCHANGED codecRest

SpecConvert == InitConvert /\ [][NextConvert]_vars

\* traversals of a database by one cursor
InitTraverse ==
    /\ IdleIdx /\ IdleCur /\ IdleRS /\ IdleBulk /\ IdleKV /\ IdleThr /\ IdleCodec /\ IdlePeer
    /\ InitWalk

walkRest == <<idxVars, curVars, rsVars, bulkVars, kvVars, thrVars, codecVars, peerVars>>

NextTraverse ==
    \/ \E k \in Keys, v \in Locs : WalkPut(k, v) /\ UNCHANGED walkRest
    \/ \E mode \in WalkModes : WalkOpen(mode) /\ UNCHANGED walkRest
    \/ WalkStep /\ UNCHANGED walkRest
    \/ WalkClose /\ UNCHANGED walkRest

SpecTraverse == InitTraverse /\ [][NextTraverse]_vars

\* two cursors of one direction over an index that other cursors fill
InitPair ==
    /\ idx = {}
    /\ dupSort \in BOOLEAN
    /\ unique = ~dupSort
    /\ ready = TRUE
    /\ multikey = FALSE
    /\ docs = [l \in Locs |-> {}]
    /\ ticket = NoTicket
    /\ fate = "running"
    /\ dupsUsed = FALSE
    /\ InitCur
    /\ IdleRS /\ IdleBulk /\ IdleKV /\ IdleThr /\ IdleCodec /\ IdleWalk /\ IdlePeer

pairRest == <<idxRest, rsVars, bulkVars, kvVars, thrVars, codecVars, walkVars>>

NextPair ==
    \/ \E k \in Keys, v \in Locs : OtherPut(k, v) /\ peer.ab = "none" /\ UNCHANGED <<pairRest, peerVars>>
    \/ \E k \in Keys : CurSeek(k) /\ peer.ab = "none" /\ UNCHANGED <<pairRest, peerVars>>
    \/ CurNext /\ peer.ab = "none" /\ UNCHANGED <<pairRest, peerVars>>
    \/ \E k \in Keys : PeerSeek(k) /\ peer.ab = "none" /\ UNCHANGED pairRest
    \/ PeerNext /\ peer.ab = "none" /\ UNCHANGED pairRest
    \/ PointsAt /\ UNCHANGED pairRest
    \/ PeerForget /\ UNCHANGED pairRest

SpecPair == InitPair /\ [][NextPair]_vars

\* ------------------------------------------------------------------ claims

\* the access method is between calls: the context runs, no ticket is pending
BetweenCalls == Alive /\ ticket = NoTicket

EntriesOf(db, k) == {p \in db : p[1] = k}

\* C1: in a unique index on which every insert and validateUpdate+update so
\* far was made with dupsAllowed = false, every key has at most one
\* (key, loc) entry, whatever calls were made.
C1_UniqueKeys ==
    (unique /\ ~dupsUsed) => \A k \in Keys : Cardinality(EntriesOf(idx, k)) <= 1

\* a unique index with sorted duplicates holding two keys, each at its own
\* locator, reached with dupsAllowed = false throughout
C1_Witness ==
    /\ unique /\ dupSort /\ ~dupsUsed /\ BetweenCalls
    /\ \E p \in idx, q \in idx : p[1] # q[1] /\ p[2] # q[2]

\* C2: in a capped collection, right after an insertRecord call (either
\* overload) that returned a locator, dataSize <= maxSize and
\* numRecords <= maxDocs, whatever calls came before.
C2_CappedWithinLimits ==
    (capped /\ rsLast.op \in {"insertDoc", "insertRaw"} /\ rsLast.ok)
        => (dataSize <= maxSize /\ numRecords <= maxDocs)

\* an insertRecord that returned after evicting the oldest record
C2_Witness ==
    /\ capped /\ rsLast.op \in {"insertDoc", "insertRaw"} /\ rsLast.ok
    /\ rsHist.pure
    /\ rsLast.id >= 1
    /\ \E p \in recs : p[1] = rsLast.id
    /\ \A p \in recs : p[1] # 0
    /\ numRecords = Cardinality(recs)
    /\ numRecords = maxDocs

\* C3: the index holds, for every document stored at a locator, exactly the
\* pairs (k, loc) of the document's keys, after any calls that returned,
\* whatever the READY flag and dupsAllowed are.
C3_IndexMatchesDocs ==
    Alive => \A l \in Locs : docs[l] # {} => KeysAt(idx, l) = docs[l]

\* C4: when insert of a document with key set K at loc returns OK, findSingle
\* returns a non-null locator for every key of K; findSingle of a key without
\* an entry returns the null locator.
C4_FindSingleAfterInsert ==
    BetweenCalls =>
        /\ \A K \in KeySets \ {{}}, loc \in Locs, d \in BOOLEAN :
             LET r == InsertOp(idx, dupSort, ready, K, loc, d)
             IN r.status = "OK" => \A k \in K : FindSingle(r.db, k) \in Locs
        /\ \A k \in Keys : EntriesOf(idx, k) = {} => FindSingle(idx, k) = NullLoc

\* an index holding key MaxKey but not key 1, on which the insert of a
\* two-key document succeeds
C4_Witness ==
    /\ BetweenCalls
    /\ EntriesOf(idx, 1) = {} /\ EntriesOf(idx, MaxKey) # {}
    /\ \E loc \in Locs :
         LET r == InsertOp(idx, dupSort, ready, {1, MaxKey}, loc, TRUE)
         IN /\ r.status = "OK" /\ r.n >= 1
            /\ FindSingle(r.db, 1) = loc
            /\ FindSingle(idx, 1) = NullLoc

\* C5: remove of a document with key set K at loc deletes exactly the pairs
\* (k, loc), k in K, that are present, counts them in numDeleted, leaves
\* every other entry alone, skips (and optionally logs) a missing pair, and
\* returns OK.
C5_RemoveExactly ==
    BetweenCalls =>
        \A K \in KeySets, loc \in Locs, l \in BOOLEAN :
            LET r == RemoveOp(idx, K, loc, l)
                own == {<<k, loc>> : k \in K}
            IN /\ r.status = "OK"
               /\ r.db = idx \ own
               /\ r.n = Cardinality(idx \cap own)
               /\ r.warn = IF l THEN Cardinality(own \ idx) ELSE 0

\* a remove that deletes a pair, skips a missing one and leaves entries behind
C5_Witness ==
    /\ BetweenCalls
    /\ \E K \in KeySets, loc \in Locs :
         LET r == RemoveOp(idx, K, loc, TRUE)
         IN r.n >= 1 /\ r.warn >= 1 /\ r.db # {} /\ r.db # idx

\* C6: on a READY unique index, insert with dupsAllowed = false of a new
\* document at L2, one of whose keys is indexed at another locator, returns
\* DuplicateKey with numInserted = 0; the index is as before, so findSingle
\* of that key still returns the locator it returned.
C6_DuplicateRejected ==
    (BetweenCalls /\ unique /\ ready) =>
        \A K \in KeySets, L2 \in Locs :
            (/\ KeysAt(idx, L2) = {}
             /\ \E k \in K : EntriesOf(idx, k) # {})
            => LET r == InsertOp(idx, dupSort, ready, K, L2, FALSE)
               IN /\ r.status = "DuplicateKey"
                  /\ r.n = 0
                  /\ r.db = idx
                  /\ \A k \in K : EntriesOf(idx, k) # {} =>
                        /\ FindSingle(r.db, k) = FindSingle(idx, k)
                        /\ FindSingle(r.db, k) \in Locs \ {L2}

\* scenario S3 with a two-key document: key MaxKey is indexed at locator 1
\* only, and the insert of {1, MaxKey} at locator 2 puts key 1 before it is
\* rejected on key MaxKey
C6_Witness ==
    /\ BetweenCalls /\ unique /\ ready /\ ~dupsUsed
    /\ idx = {<<MaxKey, 1>>}
    /\ InsertOp(idx, dupSort, ready, {1, MaxKey}, 2, FALSE).status = "DuplicateKey"
    /\ FindSingle(InsertOp(idx, dupSort, ready, {1, MaxKey}, 2, FALSE).db, MaxKey) = 1

\* the pair savePosition recorded
SavedPair == <<savedKey, savedLoc>>

\* the cursor has just returned from restorePosition
Restored(dir) == curOp = "restore" /\ curDir = dir

\* the pairs next() yields from pos on, until it reports EOF
RECURSIVE Scan(_, _, _)
Scan(db, dir, pos) ==
    LET r == NextOp(db, dir, pos)
    IN IF r.eof THEN <<>> ELSE <<r.pos>> \o Scan(db, dir, r.pos)

\* the pairs of S in (key, loc) order
RECURSIVE Ascending(_)
Ascending(S) ==
    IF S = {} THEN <<>> ELSE <<MinPair(S)>> \o Ascending(S \ {MinPair(S)})

\* C7: a cursor of either direction that stands on (k, loc), is saved and is
\* restored with no change to the database in between is not at EOF and
\* stands on the same (k, loc).
C7_SaveRestoreUnchanged ==
    (curOp = "restore" /\ ~dirty) => (~curEof /\ curPos = SavedPair)

\* a reverse cursor restored, unchanged database, on a key with two locators
C7_Witness ==
    /\ curOp = "restore" /\ ~dirty /\ curDir = -1
    /\ curPos = SavedPair
    /\ Cardinality(EntriesOf(idx, savedKey)) >= 2
    /\ \E p \in idx : p[1] # savedKey

\* C8: a forward cursor on an index with sorted duplicates, saved at (k, loc);
\* when (k, loc) is gone at restore but some (k, loc') with loc' > loc
\* remains, restorePosition leaves the cursor on the smallest such pair, and
\* next() then yields every remaining greater pair in (key, loc) order, then
\* EOF.
C8_ForwardRestoreLaterDup ==
    LET later == {p \in idx : p[1] = savedKey /\ p[2] > savedLoc}
    IN (Restored(1) /\ dupSort /\ SavedPair \notin idx /\ later # {})
       => /\ ~curEof
          /\ curPos = MinPair(later)
          /\ Scan(idx, 1, curPos) = Ascending({p \in idx : PairLess(curPos, p)})

\* scenario S6 at the model's size: saved at (1, 1), which was deleted; the
\* cursor stands on (1, 2) and a pair of key 2 is still to come
C8_Witness ==
    /\ Restored(1) /\ dupSort /\ dirty
    /\ SavedPair = <<1, 1>> /\ SavedPair \notin idx
    /\ ~curEof /\ curPos = <<1, 2>>
    /\ Scan(idx, 1, curPos) # <<>>

\* C9: forward restorePosition when no (savedKey, loc') with
\* loc' >= savedLoc remains: if no pair of the saved key is left and a greater
\* key is, the cursor stands on the first pair of the smallest greater key; if
\* no key >= savedKey is left, the cursor is at EOF.
C9_ForwardRestoreNextKey ==
    (Restored(1) /\ KvSeekBothRange(idx, savedKey, savedLoc) = None)
    => /\ (EntriesOf(idx, savedKey) = {} /\ (\E p \in idx : p[1] > savedKey))
            => (~curEof /\ curPos = MinPair({p \in idx : p[1] > savedKey}))
       /\ (\A p \in idx : p[1] < savedKey) => curEof

\* C10: reverse restorePosition after any changes: the cursor stays on the
\* saved pair if it still exists; otherwise it stands on the largest remaining
\* pair below the saved pair, at EOF only if there is none, and never on a
\* pair whose key is greater than the saved key.
C10_ReverseRestoreBelow ==
    LET below == {p \in idx : PairLess(p, SavedPair)}
    IN Restored(-1)
       => /\ SavedPair \in idx => (~curEof /\ curPos = SavedPair)
          /\ (SavedPair \notin idx /\ below # {})
               => (~curEof /\ curPos = MaxPair(below))
          /\ (SavedPair \notin idx /\ below = {}) => curEof
          /\ ~curEof => curPos[1] <= savedKey

\* C11: savePosition at EOF returns IllegalOperation and changes nothing: the
\* cursor stays at EOF, the saved key and locator are kept, the handle is
\* kept; on a pair it returns OK, records the pair's key and locator and
\* drops the handle.
C11_SavePosition ==
    [][/\ curOp' = "saveEof"
          => /\ curEof /\ SavePositionStatus(curEof) = "IllegalOperation"
             /\ curEof' /\ curAttached'
             /\ UNCHANGED <<savedKey, savedLoc, curPos, curDir, idx>>
       /\ (curOp' = "save" /\ curAttached)
          => /\ ~curEof /\ SavePositionStatus(curEof) = "OK"
             /\ savedKey' = curPos[1] /\ savedLoc' = curPos[2]
             /\ ~curAttached'
             /\ UNCHANGED <<curEof, curPos, curDir, idx>>]_vars

\* savePosition was refused at EOF and an earlier saved pair is still recorded
C11_Witness ==
    /\ curOp = "saveEof" /\ curEof /\ curAttached
    /\ savedKey \in Keys /\ savedLoc \in Locs
    /\ <<savedKey, savedLoc>> \in idx

\* the commit loop ran on an empty index to its end or to a failure of its own
CommitRan == bulkPhase = "done" /\ bulkStatus \notin {"InternalError", "Interrupted"}

\* the first pair of every run of sorted pairs that share a key
RunFirsts(S) == {p \in S : \A q \in S : q[1] = p[1] => p[2] <= q[2]}

\* C12: bulk commit on a unique index with dropDups succeeds, stores the first
\* pair of every run of sorted pairs sharing a key, and puts the locator of
\* every later pair of a run into dupsToDrop.
C12_BulkDropDups ==
    (CommitRan /\ unique /\ dropDups)
    => /\ bulkStatus = "OK"
       /\ idx = RunFirsts(sorter)
       /\ dupsToDrop = {p[2] : p \in sorter \ RunFirsts(sorter)}

\* C13: bulk commit on an index without duplicates and without dropDups fails
\* with DuplicateKey when two sorted pairs share a key, and stores exactly the
\* sorter's pairs when all keys are distinct.
C13_BulkDuplicateKey ==
    (CommitRan /\ ~BulkDupsAllowed(unique) /\ ~dropDups)
    => IF sorter = RunFirsts(sorter)
       THEN bulkStatus = "OK" /\ idx = sorter
       ELSE bulkStatus = "DuplicateKey"

\* C14: initiateBulk gives no builder when the index database has an entry;
\* commitBulk on a database that has an entry returns an error, writes no
\* pair and leaves the multikey bit alone.
C14_BulkNeedsEmptyIndex ==
    [][/\ (bulkPhase = "none" /\ bulkStatus' # bulkStatus /\ idx # {})
          => (bulkStatus' = "NoBuilder" /\ bulkPhase' = "none" /\ sorter' = {})
       /\ (bulkPhase = "filling" /\ bulkPhase' # "filling" /\ idx # {})
          => /\ bulkStatus' = "InternalError" /\ bulkPhase' = "done"
             /\ UNCHANGED <<idx, multikey, sorter, dupsToDrop>>]_vars

\* a document was inserted between initiateBulk and commitBulk; commitBulk
\* refused a builder that holds a multikey document
C14_Witness ==
    /\ bulkStatus = "InternalError" /\ bulkPhase = "done"
    /\ idx # {} /\ sorter # {} /\ bulkMulti /\ ~multikey

\* C15 as claimed: with mayInterrupt = true, a flag raised while sorted items
\* remain stops the commit, which never runs to completion then.
C15_InterruptStopsCommit ==
    (bulkPhase = "done" /\ mayInterrupt /\ killPending
        /\ killAt < Len(SortedPairs(sorter)))
    => bulkStatus # "OK"

\* C15, amended: with mayInterrupt = true the flag is polled only on the
\* passes RARELY selects; a pass that polls while the flag is raised ends the
\* commit with Interrupted before its item is processed, and only such a pass
\* does; with mayInterrupt = false the flag is never consulted and every pass
\* processes its item.
C15_InterruptPolledRarely ==
    [][bulkPhase = "committing" =>
         /\ bulkStatus' = "Interrupted"
            => /\ mayInterrupt /\ killPending /\ RarelyHit(rarely)
               /\ bulkPhase' = "done"
               /\ UNCHANGED <<idx, bulkPos, dupsToDrop>>
         /\ (mayInterrupt /\ killPending /\ RarelyHit(rarely)
               /\ bulkPos < Len(SortedPairs(sorter)) /\ rarely' # rarely)
            => bulkStatus' = "Interrupted"
         /\ (~mayInterrupt /\ bulkPos < Len(SortedPairs(sorter)) /\ rarely' # rarely)
            => bulkPos' = bulkPos + 1]_vars

\* a commit interrupted after it had stored an item and before the last one
C15_Witness ==
    /\ bulkStatus = "Interrupted" /\ bulkPhase = "done"
    /\ bulkPos >= 1 /\ bulkPos < Len(SortedPairs(sorter))
    /\ Cardinality(idx) = bulkPos

ElemsOf(s) == {s[i] : i \in 1..Len(s)}

\* C16: validateUpdate never modifies the index; its ticket has
\* removed = keys(from) \ keys(to) and added = keys(to) \ keys(from); on a
\* unique index with added nonempty and dupsAllowed = false it returns
\* DuplicateKey with an invalid ticket exactly when some added key has an entry
\* in the index, for any record, and otherwise OK with a valid ticket.
C16_ValidateUpdate ==
    [][(ticket = NoTicket /\ ticket' # NoTicket) =>
         LET t == ticket'
             from == t.oldKeys
             to == t.newKeys
             r == ValidateUpdateOp(idx, unique, from, to, t.loc, t.dupsAllowed)
             taken == \E k \in to \ from : EntriesOf(idx, k) # {}
         IN /\ UNCHANGED <<idx, multikey>>
            /\ r.ticket = t
            /\ ElemsOf(t.removed) = from \ to
            /\ ElemsOf(t.added) = to \ from
            /\ Len(t.removed) = Cardinality(from \ to)
            /\ Len(t.added) = Cardinality(to \ from)
            /\ IF unique /\ to \ from # {} /\ ~t.dupsAllowed /\ taken
               THEN r.status = "DuplicateKey" /\ ~t.valid
               ELSE r.status = "OK" /\ t.valid]_vars

\* validateUpdate has just refused an update of a unique index that adds a
\* key another record holds, and keeps one key of the record
C16_Witness ==
    /\ unique /\ Alive /\ ticket # NoTicket /\ ~ticket.valid
    /\ ticket.oldKeys \cap ticket.newKeys # {}
    /\ \E i \in 1..Len(ticket.added) :
         \E p \in EntriesOf(idx, ticket.added[i]) : p[2] # ticket.loc

OthersOf(db, loc) == {p \in db : p[2] # loc}

\* C17: update with a valid ticket, on an index holding exactly the keys of
\* from for the record, returns OK and leaves exactly the keys of to for the
\* record, the entries of every other locator unchanged, and
\* numUpdated = |added|; with an invalid ticket it returns InternalError and
\* changes nothing.  The ticket's dupsAllowed is false only on a unique index,
\* as the callers compute it (!unique || ignoreUniqueIndex).
C17_UpdateExactly ==
    [][(ticket # NoTicket /\ ticket' = NoTicket /\ (unique \/ ticket.dupsAllowed)) =>
         LET t == ticket
             r == UpdateOp(idx, dupSort, t)
         IN IF t.valid
            THEN KeysAt(idx, t.loc) = t.oldKeys
                 => /\ r.status = "OK" /\ idx' = r.db
                    /\ KeysAt(idx', t.loc) = t.newKeys
                    /\ OthersOf(idx', t.loc) = OthersOf(idx, t.loc)
                    /\ r.n = Cardinality(t.newKeys \ t.oldKeys)
            ELSE r.status = "InternalError" /\ UNCHANGED <<idx, multikey>>]_vars

C19_NotFoundNeverThrows == kvLast.missing => kvLast.st = "OK"

\* C19, amended: hasKey, openIfCan and every cursor positioning operation
\* report not-found by returning false or an absent optional; DB::get,
\* DB::del and DB::open report it by throwing mdb::Error.
C19_NotFoundThrowsInGetDelOpen ==
    kvLast.missing => (kvLast.st = "Threw" <=> kvLast.op \in {"get", "del", "open"})

\* hasKey has just answered false for a key the write transaction does not hold
C19_Witness ==
    /\ kvLast.op = "hasKey" /\ kvLast.missing /\ kvLast.st = "OK"
    /\ Depth > 0 /\ TopView = {} /\ kvEnv # {}

\* the pairs of a view that a reader of another view does not see
NewIn(view, other) == view \ other

\* C20: a put in a child write transaction leaves what its parent, the
\* environment and the read transaction see unchanged; the child's commit
\* makes the parent see what the child saw and changes nothing for readers; a
\* read transaction sees what was committed to the environment when it began,
\* and the environment changes only when the outermost write transaction
\* commits; aborting the outermost transaction leaves the environment as it
\* was, whatever its children committed.
C20_NestedTransactions ==
    [][/\ (kvLast'.op = "put" /\ Depth >= 2) =>
            /\ \E k \in KvKeys, v \in KvVals :
                 /\ <<k, v>> \in wtxns'[Depth]
                 /\ \A p \in wtxns'[Depth] : p = <<k, v>> \/ p \in TopView
            /\ wtxns'[Depth - 1] = wtxns[Depth - 1]
            /\ UNCHANGED <<kvEnv, rtxn>>
       /\ (kvLast'.op = "commit" /\ Depth >= 2) =>
            /\ Len(wtxns') = Depth - 1
            /\ wtxns'[Depth - 1] = TopView
            /\ UNCHANGED <<kvEnv, rtxn>>
       /\ kvLast'.op \in {"beginRead", "renew"} => rtxn'.view = kvEnv
       /\ kvEnv' # kvEnv =>
            kvLast'.op = "commit" /\ Depth = 1 /\ kvEnv' = TopView
       /\ (kvLast'.op = "commit" /\ Depth = 1) => kvEnv' = TopView
       /\ (kvLast'.op = "abort" /\ Depth = 1) =>
            wtxns' = <<>> /\ UNCHANGED <<kvEnv, rtxn>>]_vars

\* a child has committed a put: its parent sees the pair, the environment and
\* a read transaction begun since do not
C20_Witness ==
    /\ kvLast.op = "commit" /\ Depth = 1
    /\ NewIn(TopView, kvEnv) # {}
    /\ rtxn.open /\ rtxn.view = kvEnv

C22_SingleWriter ==
    /\ [](Cardinality(Writers) <= 1 /\ Depth = Cardinality(Writers))
    /\ [][\A t \in Threads :
            (wstat[t] = "blocked" /\ wstat'[t] = "writing") => Writers = {}]_vars
    /\ [](ENABLED (ReaderBegin /\ UNCHANGED thrRest))
    /\ ((Blocked # {} /\ Writers = {}) ~> (Writers # {}))

\* one thread writes, the other is blocked in Txn::Write, and a read
\* transaction has begun
C22_Witness ==
    /\ Writers # {} /\ Blocked # {}
    /\ rtxn.open /\ kvLast.op = "beginRead"

\* C23: a Txn that leaves scope while its transaction runs is aborted: the
\* environment, the parent's view and the read transaction stay as they
\* were, so no later transaction sees its writes or those its children
\* committed into it; commit() and abort() leave the Txn without a
\* transaction, its destruction then changes nothing, and the transaction of
\* every Txn is ended exactly once.
C23_ScopeExitAborts ==
    [][/\ Len(scope') < Len(scope) =>
            /\ UNCHANGED <<kvEnv, rtxn>>
            /\ gone' = 1
            /\ IF Live(Len(scope))
               THEN wtxns' = SubSeq(wtxns, 1, Depth - 1)
               ELSE UNCHANGED wtxns
       /\ \A i \in 1..Len(scope) :
            (Len(scope') = Len(scope) /\ scope'[i] # scope[i]) =>
               ~scope'[i].held /\ scope'[i].ends = 1
       /\ \A i \in 1..Len(scope') : scope'[i].held <=> scope'[i].ends = 0]_vars

\* the outermost Txn has left scope with its transaction running, and the
\* last call on the store is the abort its destructor made
C23_Witness ==
    /\ kvLast.op = "abort" /\ scope = <<>> /\ gone = 1
    /\ Depth = 0 /\ kvEnv = {}

\* C24: for every type with both conversions and every value v, fromMDB of
\* the view toMDB made equals v; the decoders of uint32, uint64 and DiskLoc
\* fail their invariant on a view whose length is not the size of the type,
\* and only then.
C24_CodecRoundTrip ==
    /\ codec.phase = "decoded" => codec.out = Returns(codec.val)
    /\ codec.phase = "foreign" =>
         (codec.out = InvariantFails <=> Len(codec.view) # SizeOf(codec.type))
    /\ (codec.phase = "view" /\ codec.type \in FixedWidth) =>
         Len(codec.view) = SizeOf(codec.type)

\* a record locator with a negative file number has made the round trip
C24_Witness ==
    /\ codec.phase = "decoded" /\ codec.type = "DiskLoc"
    /\ codec.val[1] < 0 /\ codec.out = Returns(codec.val) /\ Len(codec.view) = 8

\* the pairs of a sequence in the opposite order
RECURSIVE Reversed(_)
Reversed(q) == IF q = <<>> THEN <<>> ELSE Append(Reversed(Tail(q)), Head(q))

\* C25: from a fresh cursor, next() repeated until it reports absent has
\* visited every stored pair exactly once in (key, value) order; prev()
\* repeated from the end has visited them in the exact reverse order; on a
\* database without duplicates, nextNoDup() repeated yields as many pairs as
\* distinct keys were put, each put in a committed transaction of its own.
C25_FullTraversal ==
    walk.done =>
      /\ walk.mode = "next" => walk.seen = Ascending(walk.db)
      /\ walk.mode = "prev" => walk.seen = Reversed(Ascending(walk.db))
      /\ (walk.mode = "nextNoDup" /\ ~walk.dups) =>
           Len(walk.seen) = Cardinality(walk.keys)

\* a finished forward walk over a key with two values and another key
C25_Witness ==
    /\ walk.done /\ walk.mode = "next" /\ walk.dups
    /\ Len(walk.seen) >= 3
    /\ \E k \in Keys : Cardinality({p \in walk.db : p[1] = k}) >= 2

\* the calls that return a locator
InsertOps == {"insertDoc", "insertRaw"}

C27_EvictOldestOnly ==
    /\ [](rsHist.pure =>
            \A p \in recs : \A i \in p[1]..(nextId - 1) : \E q \in recs : q[1] = i)
    /\ [][(nextId' # nextId /\ rsLast'.ok) =>
            LET all == recs \cup {<<nextId, rsHist'.size>>}
                ev == all \ recs'
            IN /\ recs' \subseteq all
               /\ \A e \in ev, q \in recs' : e[1] < q[1]
               /\ ev # {} => OverCap(dataSize' + MaxPair(ev)[2], numRecords' + 1,
                                     maxSize, maxDocs)
               /\ dataSize' = dataSize + rsHist'.size - SumSizes(ev)
               /\ numRecords' = numRecords + 1 - Cardinality(ev)
               /\ ~capped => ev = {}]_vars

\* a capped collection that has only seen inserts, after an insert that
\* evicted: the two newest records are kept, the oldest are gone
C27_Witness ==
    /\ capped /\ rsHist.pure
    /\ rsLast.op \in InsertOps /\ rsLast.ok
    /\ Cardinality(recs) = 2
    /\ \A p \in recs : p[1] >= rsLast.id - 1
    /\ rsLast.id >= 2

\* scenario S5 in units of the document size: three documents fit into
\* maxSize, four do not, and maxDocs is never reached
S5 == [size |-> 1, maxSize |-> 3, maxDocs |-> 4, inserts |-> 4]

\* the fourth insertRecord(data, len) of S5 has returned
S5Done ==
    /\ capped /\ maxSize = S5.maxSize /\ maxDocs = S5.maxDocs
    /\ rsHist.pure
    /\ rsHist.issued = 0..(S5.inserts - 1)
    /\ rsHist.sizes = {S5.size}
    /\ rsLast.op = "insertRaw" /\ rsLast.ok

\* the ids of the records stored
IdsOf(db) == {p[1] : p \in db}

\* C28 as stated: after the fourth insert of S5, numRecords = 3 and the two
\* earliest-inserted records are gone.
C28_S5TwoOldestGone ==
    S5Done => (numRecords = 3 /\ 0 \notin IdsOf(recs) /\ 1 \notin IdsOf(recs))

\* C28: after the fourth insert of S5, numRecords = 3 and exactly the
\* earliest-inserted record is gone.
C28_S5OldestGone ==
    S5Done => (numRecords = 3 /\ Cardinality(recs) = 3 /\ IdsOf(recs) = {1, 2, 3})

\* the state after the fourth insert of S5
C28_Witness == S5Done /\ dataSize = 3 /\ rsLast.id = 3

\* C29: on a capped collection, after any sequence of insertRecord,
\* deleteRecord and truncate, every iteration of the eviction loop finds a
\* record: no insertRecord ends in a failed invariant(kv).
C29_EvictionFindsRecord ==
    (capped /\ rsLast.op \in InsertOps) => rsLast.ok

\* an insert after a truncate, on stats the truncate left as they were: the
\* loop ran and evicted the record just inserted
C29_Witness ==
    /\ capped /\ rsLast.op \in InsertOps /\ rsLast.ok
    /\ ~rsHist.pure
    /\ recs = {}
    /\ numRecords >= 1

\* the stored pairs a forward seek may land on
SeekTargets(key, afterKey) ==
    {p \in idx : IF afterKey THEN p[1] > key ELSE p[1] >= key}

\* the cursor is at EOF iff there is no target, and else on the smallest one
LandsOnSmallest(T, eof, pos) ==
    /\ eof <=> T = {}
    /\ T # {} => (pos \in T /\ \A q \in T : q = pos \/ PairLess(pos, q))

\* C30: a forward cursor, after seek(key) or seek(key, afterKey = false), is
\* on the smallest stored pair in (key, loc) order with k >= key; after
\* seek(key, afterKey = true) on the smallest stored pair with k > key; it is
\* at EOF iff there is no such pair.
C30_ForwardSeek ==
    [][/\ (curDir = 1 /\ curOp' = "seek") =>
            \A k \in Keys :
              CurSeek(k) => LandsOnSmallest(SeekTargets(k, FALSE), curEof', curPos')
       /\ (curDir = 1 /\ curOp' = "seekAfter") =>
            \A k \in Keys, a \in BOOLEAN :
              CurSeekAfter(k, a) => LandsOnSmallest(SeekTargets(k, a), curEof', curPos')]_vars

\* a forward seek after the largest key, which has two locators: EOF
C30_Witness ==
    /\ curOp = "seekAfter" /\ curDir = 1 /\ curEof
    /\ Cardinality({p \in idx : p[1] = MaxKey}) >= 2

\* C31: a.pointsAt(b) is true exactly when both cursors are at EOF or both
\* stand on the same (key, locator) pair, false when exactly one of them is at
\* EOF, and equal to b.pointsAt(a).
C31_PointsAtSymmetric ==
    peer.ab # "none" =>
      /\ peer.ab = "true" <=>
           \/ curEof /\ peer.eof
           \/ ~curEof /\ ~peer.eof /\ curPos = peer.pos
      /\ peer.ab = peer.ba

\* the pairs insert puts for a document with key set K at loc
OwnPairs(K, loc) == {<<k, loc>> : k \in K}

\* C32: on an index that is not READY, an insert one of whose puts hits
\* MDB_KEYEXIST returns OK; every key of the document whose put did not fail
\* is stored at the locator, no entry that was present is altered, and
\* numInserted counts the puts that succeeded.
C32_NotReadySwallows ==
    (BetweenCalls /\ ~ready) =>
        \A K \in KeySets \ {{}}, loc \in Locs, d \in BOOLEAN :
            LET r == InsertOp(idx, dupSort, ready, K, loc, d)
            IN (r.n < Cardinality(K) /\ (unique \/ d)) =>
                 /\ r.status = "OK"
                 /\ \A k \in K :
                      \/ <<k, loc>> \in r.db
                      \/ ~d /\ EntriesOf(idx, k) # {}
                 /\ idx \subseteq r.db
                 /\ r.db \ idx \subseteq OwnPairs(K, loc)
                 /\ r.n = Cardinality(r.db \ idx)

C34_UnwindStopsAtFailedKey ==
    (BetweenCalls /\ unique /\ ready) =>
        \A K \in KeySets \ {{}}, loc \in Locs :
            InsertOp(idx, dupSort, ready, K, loc, FALSE).status # "InvariantFailure"

\* C35: a put of insert on a READY index fails with MDB_KEYEXIST only when
\* dupsAllowed is false: insert with dupsAllowed = true, also of a document
\* whose pair (key, loc) is in the index already, passes the invariant
\* !options.dupsAllowed, never returns DuplicateKey and never aborts.
C35_DupsAllowedNeverKeyExists ==
    (BetweenCalls /\ ready) =>
        \A K \in KeySets \ {{}}, loc \in Locs :
            InsertOp(idx, dupSort, ready, K, loc, TRUE).status = "OK"

\* the pairs a reverse seek may land on: key at or below the query, or below
\* it when afterKey
ReverseTargets(key, afterKey) ==
    {p \in idx : IF afterKey THEN p[1] < key ELSE p[1] <= key}

\* not at EOF, the cursor is on the largest target
LandsOnLargest(T, eof, pos) ==
    ~eof => (pos \in T /\ \A q \in T : q = pos \/ PairLess(q, pos))

\* C36: a reverse cursor that is not at EOF after seek(key) or
\* seek(key, afterKey = false) is on the largest stored pair with k <= key,
\* and after seek(key, afterKey = true) on a pair with k < key; it is never
\* left on a key greater than the query.
C36_ReverseSeek ==
    [][/\ (curDir = -1 /\ curOp' = "seek") =>
            \A k \in Keys :
              CurSeek(k) => LandsOnLargest(ReverseTargets(k, FALSE), curEof', curPos')
       /\ (curDir = -1 /\ curOp' = "seekAfter") =>
            \A k \in Keys, a \in BOOLEAN :
              CurSeekAfter(k, a) =>
                /\ ~curEof' => curPos' \in ReverseTargets(k, a)
                /\ ~a => LandsOnLargest(ReverseTargets(k, a), curEof', curPos')]_vars

\* C37: after any sequence of insertRecord, deleteRecord, capped eviction and
\* truncate, numRecords is the number of records in the database and
\* dataSize is the sum of their value lengths.
C37_StatsTrackContents ==
    RsAlive => (numRecords = Cardinality(recs) /\ dataSize = SumSizes(recs))

\* C38: with the counter an unsigned integer that wraps and the guard taken
\* on the id converted to the signed type, insertRecord never stores or
\* returns an id above maxDiskLoc.getOfs(), and never returns an id it has
\* returned before.
C38_IdsStayInRange ==
    /\ [](\A p \in recs : p[1] <= MaxDiskLocOfs)
    /\ [][(rsLast'.op = "insert32" /\ rsLast'.ok /\ rsLast' # rsLast) =>
             /\ rsLast'.id <= MaxDiskLocOfs
             /\ rsLast'.id \notin rsHist.issued]_vars

C40_ReturnedRecordExists ==
    (rsLast.op \in InsertOps /\ rsLast.ok) => <<rsLast.id, rsHist.size>> \in recs

====
